---- MODULE Spec2Model ----
(***************************************************************************)
(* Model of prestic (src/prestic/prestic.py): the Profile schedule engine, *)
(* the inheritance loop of BaseHandler.load_config, and the ServiceHandler *)
(* supervisor (proc_scheduler / run_task) with the presentation workers    *)
(* that share its profiles.                                                *)
(*                                                                         *)
(* Time is counted in seconds since 2024-01-01 00:00, a Monday and the     *)
(* first day of a month.  None stands for Python's None.                   *)
(***************************************************************************)
EXTENDS Integers, Sequences, FiniteSets, TLC

\* ------------------------------------------------------------------ bounds
StartTime == 81000     \* the clock when the service starts (Monday 22:30:00)
TickMinutes == 45      \* one step of the clock, in minutes
MaxTicks == 1          \* the clock advances at most this many times
MaxOutput == 1         \* lines a subprocess prints before it exits
MaxRunNow == 1         \* "Run Now" clicks of the tray user
MaxBrowse == 1         \* HTTP browse requests served
MaxInherit == 2        \* longest inherit list of a configured profile
MaxReload == 1         \* uses of the tray's "Reload config" entry
MaxFromDay == 7        \* find_next_run is called on 2024-01-01 .. this many days later

None == -1
ValueError == -2       \* datetime.replace() raising ValueError
SecondsPerDay == 86400

\* ------------------------------------------------------- datetime helpers
MonthLens == <<31, 29, 31, 30, 31, 30, 31, 31, 30, 31, 30, 31>>

DayOf(t) == t \div SecondsPerDay
DayStart(t) == DayOf(t) * SecondsPerDay
HourOf(t) == (t % SecondsPerDay) \div 3600
MinuteOf(t) == (t % 3600) \div 60
Weekday(t) == DayOf(t) % 7

RECURSIVE DomFrom(_, _)
DomFrom(d, m) ==
    IF d < MonthLens[m] THEN d + 1 ELSE DomFrom(d - MonthLens[m], (m % 12) + 1)

\* datetime.day of the instant t
DayOfMonth(t) == DomFrom(DayOf(t), 1)

\* a replace() that sets the hour and leaves the minute at 0
ReplaceHM_DropsMinute(t, h, m) ==
    IF t = ValueError \/ h < 0 \/ h > 23 \/ m < 0 \/ m > 59
    THEN ValueError
    ELSE (t \div 86400) * 86400 + 3600 * h

\* datetime.replace(hour=h, minute=m) on an instant at HH:MM:00
ReplaceHM(t, h, m) ==
    IF t = ValueError \/ h < 0 \/ h > 23 \/ m < 0 \/ m > 59
    THEN ValueError
    ELSE DayStart(t) + 3600 * h + 60 * m

\* ------------------------------------------------------- schedule strings
\* A schedule string is its truthiness and the tokens that
\* schedule.lower().replace(",", " ").split() yields.
Tok(k) == [k |-> k, d |-> 0, star |-> FALSE, h |-> 0, m |-> 0]
TokDay(d) == [k |-> "wday", d |-> d, star |-> FALSE, h |-> 0, m |-> 0]
TokTime(h, m) == [k |-> "time", d |-> 0, star |-> FALSE, h |-> h, m |-> m]
TokStar(m) == [k |-> "time", d |-> 0, star |-> TRUE, h |-> 0, m |-> m]

NoSchedule == [text |-> FALSE, parts |-> <<>>]
Sched(parts) == [text |-> TRUE, parts |-> parts]

\* the body of "for part in ...": one token applied to (next_run, m_days, w_days)
ApplyPart(acc, part, from_time) ==
    IF part.k = "monthly" THEN [acc EXCEPT !.m_days = {1}]
    ELSE IF part.k = "weekly" THEN [acc EXCEPT !.w_days = {0}]
    ELSE IF part.k = "daily" THEN [acc EXCEPT !.w_days = 0..6]
    ELSE IF part.k = "hourly"
        THEN [acc EXCEPT !.next_run = ReplaceHM(acc.next_run, HourOf(from_time) + 1, 0)]
    ELSE IF part.k = "wday" THEN [acc EXCEPT !.w_days = acc.w_days \cup {part.d}]
    ELSE IF part.k = "time"
        THEN [acc EXCEPT !.next_run =
                 ReplaceHM(acc.next_run,
                           IF part.star THEN HourOf(from_time) + 1 ELSE part.h,
                           part.m)]
    ELSE acc

RECURSIVE ApplyParts(_, _, _, _)
ApplyParts(acc, parts, i, from_time) ==
    IF i > Len(parts) \/ acc.next_run = ValueError THEN acc
    ELSE ApplyParts(ApplyPart(acc, parts[i], from_time), parts, i + 1, from_time)

\* a scan that accepts the first day of the month set, whatever its weekday
RECURSIVE ScanDays_AnyWeekday(_, _, _, _, _)
ScanDays_AnyWeekday(next_run, i, last, acc, from_time) ==
    IF i >= last THEN None
    ELSE IF /\ DayOfMonth(next_run) \in acc.m_days
            /\ next_run >= from_time
         THEN next_run
         ELSE ScanDays_AnyWeekday(next_run + SecondsPerDay, i + 1, last, acc, from_time)

\* a scan that accepts a matching day even when it lies before from_time
RECURSIVE ScanDays_NoFromCheck(_, _, _, _, _)
ScanDays_NoFromCheck(next_run, i, last, acc, from_time) ==
    IF i >= last THEN None
    ELSE IF /\ DayOfMonth(next_run) \in acc.m_days
            /\ ((i % 7) \in acc.w_days \/ acc.w_days = {})
         THEN next_run
         ELSE ScanDays_NoFromCheck(next_run + SecondsPerDay, i + 1, last, acc, from_time)

\* "for i in range(from_time.weekday(), from_time.weekday() + 32)"
RECURSIVE ScanDays(_, _, _, _, _)
ScanDays(next_run, i, last, acc, from_time) ==
    IF i >= last THEN None
    ELSE IF /\ DayOfMonth(next_run) \in acc.m_days
            /\ ((i % 7) \in acc.w_days \/ acc.w_days = {})
            /\ next_run >= from_time
         THEN next_run
         ELSE ScanDays(next_run + SecondsPerDay, i + 1, last, acc, from_time)

\* a find_next_run that searches from from_time itself, without the added minute
find_next_run_NoMinute(schedule, from_arg) ==
    IF ~schedule.text THEN None
    ELSE LET acc0 == [next_run |-> DayStart(from_arg), m_days |-> 1..31, w_days |-> {}]
             acc == ApplyParts(acc0, schedule.parts, 1, from_arg)
         IN IF acc.next_run = ValueError THEN ValueError
            ELSE ScanDays(acc.next_run, Weekday(from_arg), Weekday(from_arg) + 32,
                          acc, from_arg)

\* a find_next_run without the "if self.schedule" test
find_next_run_AlwaysScans(schedule, from_arg) ==
    LET from_time == from_arg + 60
        acc0 == [next_run |-> DayStart(from_time), m_days |-> 1..31, w_days |-> {}]
        acc == ApplyParts(acc0, schedule.parts, 1, from_time)
    IN IF acc.next_run = ValueError THEN ValueError
       ELSE ScanDays(acc.next_run, Weekday(from_time), Weekday(from_time) + 32,
                     acc, from_time)

\* Profile.find_next_run(from_time), from_time already defaulted by the caller
find_next_run(schedule, from_arg) ==
    IF ~schedule.text THEN None
    ELSE LET from_time == from_arg + 60    \* timedelta(minutes=1)
             acc0 == [next_run |-> DayStart(from_time), m_days |-> 1..31, w_days |-> {}]
             acc == ApplyParts(acc0, schedule.parts, 1, from_time)
         IN IF acc.next_run = ValueError THEN ValueError
            ELSE ScanDays(acc.next_run, Weekday(from_time), Weekday(from_time) + 32,
                          acc, from_time)

\* ------------------------------------------------------------ the service
\* self.tasks, in list order, and the subcommand each one runs
TaskCommands == << <<"backup", "/home">>, <<"prune">> >>
Tasks == 1..Len(TaskCommands)
\* the schedule strings each task may be configured with: "hourly",
\* "daily 23:00", or none
Hourly == Sched(<<Tok("hourly")>>)
Daily == Sched(<<Tok("daily"), TokTime(23, 0)>>)
TaskSchedules == << {Hourly, Daily}, {Daily, NoSchedule} >>

\* lines restic may print, and the exit codes it may end with
StaleLine == "the unlock command can be used to remove stale locks"
UnchangedLine == "unchanged /home/f"
Lines == {StaleLine, UnchangedLine, "processed 1 files"}
ExitCodes == {0, 1, 2, 3}
LaunchError == -3
      \* Popen raised OSError: the run has no exit code
NotANumber == -4       \* a last_run text that float() rejects

Has(seq, x) == \E i \in 1..Len(seq) : seq[i] = x
Min(a, b) == IF a < b THEN a ELSE b
Max(a, b) == IF a > b THEN a ELSE b

\* ConfigParser keeps str(v); a key never written is absent
Str(v) == <<v>>
Absent == <<>>
EmptySection ==
    [started |-> Absent, pid |-> Absent, last_run |-> Absent,
     exit_code |-> Absent, log_file |-> Absent]

VARIABLES
    now,                     \* the clock
    schedule, command,       \* configuration of each task
    last_run, next_run,      \* Profile.last_run / Profile.next_run
    state,                   \* self.state: the ConfigParser of status.ini
    store,                   \* the State Store: the file status.ini
    service_pid,             \* os.getpid() of the service
    rivals,                  \* other service processes started on the store
    load_error,              \* the exception that ended a start of the service
    running, alive, stop_pc, \* BaseHandler.running; the process; stop()
    status,                  \* ServiceHandler.status
    sched_pc, idx, next_task, sleep_time,   \* proc_scheduler's frame
    cur, phase, output, rt_output, rt_ret,  \* run_task's frame
    procs,                   \* subprocesses run_task started, still running
    snapshots_data,          \* WebRequestHandler.snapshots_data
    runs, outcome, last_task, \* history: the run_task call of this pass
    crashed,                 \* history: a polling pass has raised
    clicks, browses,         \* history: requests made so far
    inherit, props, parents, \* self.profiles: the profiles being resolved
    lc_pc, lc_i, inherits,   \* load_config's inheritance loop
    lc_tasks,                \* self.tasks, by profile name
    config,                  \* history: the configuration file as read
    prev, reloads,           \* history: the registry before "Reload config"
    fn_pc, fn_schedule, fn_from, fn_result,  \* a call of Profile.find_next_run
    log_files,               \* the files of PROG_HOME/logs
    due,                     \* history: the next_run each task was last started for
    asked,                   \* history: "Run Now" requests not yet followed by a start
    reloaded, loaded,        \* self.tasks of a reload the polling loop has not read yet
    gc_pc, gc_props, gc_args, gc_env, gc_argv   \* a call of Profile.get_command

supVars == <<now, schedule, command, last_run, next_run, state, store, running,
             alive, stop_pc, status, sched_pc, idx, next_task, sleep_time, cur,
             phase, output, rt_output, rt_ret, procs, snapshots_data, runs,
             outcome, last_task, crashed, clicks, browses>>
loadVars == <<inherit, props, parents, lc_pc, lc_i, inherits, lc_tasks,
              config, prev, reloads>>
instVars == <<service_pid, rivals, load_error>>
fnVars == <<fn_pc, fn_schedule, fn_from, fn_result>>
logVars == <<log_files>>
cmdVars == <<gc_pc, gc_props, gc_args, gc_env, gc_argv>>
histVars == <<due, asked, reloaded, loaded>>
vars == <<supVars, loadVars, instVars, fnVars, logVars, cmdVars, histVars>>

\* a save_state that records nothing
save_state_Nothing(st, section, values) == st

\* BaseHandler.save_state: update the section's keys with str(value)
save_state(st, section, values) ==
    [st EXCEPT ![section] =
        [k \in DOMAIN st[section] |->
            IF k \in DOMAIN values THEN Str(values[k]) ELSE st[section][k]]]

\* pids the operating system may give a service process
ServicePids == {4001, 4002}

\* status.ini as save_state(..., write=True) leaves it: a file ConfigParser
\* can read back, whose "__prestic__" section holds the pid of the process
\* that wrote it
WrittenBy(pid, st) == [parses |-> TRUE, pid |-> Str(pid), tasks |-> st]
Written(st) == WrittenBy(service_pid, st)

\* a load that leaves the records of status.ini as they are
ResetRunning_Keep(sections) == sections

\* load_config, "Setup task status":
\* save_state(task.name, {"started": 0, "pid": 0}, False) for every task
ResetRunning(sections) ==
    [t \in Tasks |-> [sections[t] EXCEPT !.started = Str(0), !.pid = Str(0)]]

\* a task that counts as pending as soon as it has a next_run
is_pending_Always(t) == next_run[t] # None

\* Profile.is_pending
is_pending(t) == next_run[t] # None /\ next_run[t] <= now

\* ServiceHandler.set_status
set_status(message) == status' = message

\* log_filter of run_task: lines of a backup run that are not captured
Filtered(t, line) == Has(command[t], "backup") /\ line = UnchangedLine

\* a load that always takes the next_run computed from the current time
LoadedRun_NoCatchUp(sections, t) ==
    [last_run |-> IF sections[t].last_run \in {Absent, Str(NotANumber)} THEN None
                  ELSE sections[t].last_run[1],
     next_run |-> find_next_run(schedule[t], now)]

\* a load that always keeps the next_run derived from the stored last_run
LoadedRun_AlwaysCatchUp(sections, t) ==
    LET fresh == find_next_run(schedule[t], now)
        stored == sections[t].last_run
    IN IF stored = Absent \/ stored = Str(NotANumber)
       THEN [last_run |-> None, next_run |-> fresh]
       ELSE LET from_last == find_next_run(schedule[t], stored[1]) IN
            [last_run |-> stored[1],
             next_run |-> IF from_last = ValueError THEN fresh ELSE from_last]

\* Profile.__init__ and the try block of load_config for task t, given the
\* sections read from status.ini: the (last_run, next_run) the task starts with
LoadedRun(sections, t) ==
    LET fresh == find_next_run(schedule[t], now)       \* set by __setitem__
        stored == sections[t].last_run
    IN IF stored = Absent \/ stored = Str(NotANumber)   \* fromtimestamp(None) or
       THEN [last_run |-> None, next_run |-> fresh]     \* getfloat raises
       ELSE LET from_last == find_next_run(schedule[t], stored[1]) IN
            IF from_last = ValueError
            THEN [last_run |-> stored[1], next_run |-> fresh]
            ELSE IF from_last = None                   \* None > datetime raises
            THEN [last_run |-> stored[1], next_run |-> None]
            ELSE IF from_last > now - SecondsPerDay /\ fresh < now + 12 * 3600
            THEN [last_run |-> stored[1], next_run |-> fresh]
            ELSE [last_run |-> stored[1], next_run |-> from_last]

\* no run was started, no request made, no reload pending
HistIdle ==
    /\ due = [t \in Tasks |-> None] /\ asked = [t \in Tasks |-> "no"]
    /\ reloaded = FALSE /\ loaded = <<>>

\* ------------------------------------------------------- state after start
\* BaseHandler.__init__ (load_config with no prior status.ini) followed by
\* ServiceHandler.run up to the start of the two worker threads.
SupInit ==
    /\ now = StartTime
    /\ schedule \in {f \in [Tasks -> {Hourly, Daily, NoSchedule}] :
                         \A t \in Tasks : f[t] \in TaskSchedules[t]}
    /\ command = TaskCommands
    /\ last_run = [t \in Tasks |-> None]
    /\ next_run = [t \in Tasks |-> find_next_run(schedule[t], now)]
    /\ state = [t \in Tasks |->
                  [EmptySection EXCEPT !.started = Str(0), !.pid = Str(0)]]
    /\ service_pid = 4001 /\ rivals = {} /\ load_error = "none"
    /\ store = Written(state)
    /\ running = TRUE /\ alive = TRUE /\ stop_pc = "none"
    /\ status = [msg |-> "service started", task |-> 0, code |-> 0]
    /\ sched_pc = "while" /\ idx = 0 /\ next_task = 0 /\ sleep_time = 60
    /\ cur = 0 /\ phase = "none" /\ output = <<>>
    /\ rt_output = <<>> /\ rt_ret = None
    /\ procs = {} /\ snapshots_data = {}
    /\ runs = <<>> /\ outcome = "idle" /\ last_task = 0 /\ crashed = FALSE
    /\ clicks = 0 /\ browses = 0
    /\ log_files = {}
    /\ HistIdle

LoadIdle ==
    /\ inherit = <<>> /\ props = <<>> /\ parents = <<>>
    /\ lc_pc = "idle" /\ lc_i = 0 /\ inherits = FALSE
    /\ lc_tasks = <<>> /\ config = <<>> /\ prev = <<>> /\ reloads = 0

\* no call of find_next_run or get_command is followed on its own
FnIdle ==
    /\ fn_pc = "idle" /\ fn_schedule = NoSchedule /\ fn_from = 0 /\ fn_result = None
    /\ gc_pc = "idle" /\ gc_props = <<>> /\ gc_args = <<>>
    /\ gc_env = <<>> /\ gc_argv = <<>>

\* ------------------------------------------------------ proc_scheduler
MaxIdle == 10          \* time.sleep(min(sleep_time, 10))

\* "if not next_task: ... elif ...: next_task = task"
NextTaskAfter(t, nt, nr) ==
    IF nt = 0 THEN t
    ELSE IF nr[t] # None /\ nr[nt] # None /\ nr[t] < nr[nt] THEN t
    ELSE nt

\* a polling loop whose thread ends with the first exception of a pass
AfterException_Returns == "returned"

\* where the "except Exception" clause of the polling loop leaves the thread
AfterException == "sleep"

\* "while self.running:" and the two assignments that open a pass
LoopHead ==
    /\ alive /\ sched_pc = "while"
    /\ IF running
       THEN /\ next_task' = 0 /\ sleep_time' = 60 /\ idx' = 1
            /\ sched_pc' = "for"
            /\ runs' = <<>> /\ outcome' = "idle" /\ last_task' = 0
            \* "for task in self.tasks": the list load_config left last
            /\ IF reloaded
               THEN /\ last_run' = [t \in Tasks |-> loaded.tasks[t].last_run]
                    /\ next_run' = [t \in Tasks |-> loaded.tasks[t].next_run]
                    /\ reloaded' = FALSE /\ loaded' = <<>>
               ELSE UNCHANGED <<last_run, next_run, reloaded, loaded>>
            /\ asked' = [t \in Tasks |->
                            IF asked[t] = "new" THEN "waiting" ELSE asked[t]]
       ELSE /\ sched_pc' = "returned"
            /\ UNCHANGED <<next_task, sleep_time, idx, runs, outcome, last_task,
                           last_run, next_run, reloaded, loaded, asked>>
    /\ UNCHANGED <<now, schedule, command, state, store,
                   running, alive, stop_pc, status, cur, phase, output,
                   rt_output, rt_ret, procs, snapshots_data, clicks, browses,
                   crashed, loadVars, instVars, fnVars, logVars, cmdVars, due>>

\* "if not task.next_run: continue"
ForContinue ==
    /\ alive /\ sched_pc = "for" /\ idx \in Tasks
    /\ next_run[idx] = None
    /\ idx' = idx + 1
    /\ UNCHANGED <<now, schedule, command, last_run, next_run, state, store,
                   running, alive, stop_pc, status, sched_pc, next_task,
                   sleep_time, cur, phase, output, rt_output, rt_ret, procs,
                   snapshots_data, runs, outcome, last_task, clicks, browses, crashed, loadVars, instVars, fnVars, logVars, histVars, cmdVars>>

\* a task that is scheduled but not due: only the next_task bookkeeping
ForNotPending ==
    /\ alive /\ sched_pc = "for" /\ idx \in Tasks
    /\ next_run[idx] # None /\ ~is_pending(idx)
    /\ next_task' = NextTaskAfter(idx, next_task, next_run)
    /\ idx' = idx + 1
    /\ UNCHANGED <<now, schedule, command, last_run, next_run, state, store,
                   running, alive, stop_pc, status, sched_pc, sleep_time, cur,
                   phase, output, rt_output, rt_ret, procs, snapshots_data,
                   runs, outcome, last_task, clicks, browses, crashed, loadVars, instVars, fnVars, logVars, histVars, cmdVars>>

\* the first try block of run_task: Path.parent is a property, so
\* "log_file.parent()" calls a Path object and raises TypeError before mkdir
\* and open; the except clause sets log_file = Path("-") and log_fd = None.
\* No file is created for task t.
OpenedLog(t) == {}

\* "if task.is_pending(): self.run_task(task)": run_task up to its first try_run.
\* log_file.parent() raises, so log_file is Path("-") and log_fd is None.
RunTaskBegin ==
    /\ alive /\ sched_pc = "for" /\ idx \in Tasks
    /\ next_run[idx] # None /\ is_pending(idx)
    /\ cur' = idx /\ phase' = "first"
    /\ log_files' = log_files \cup OpenedLog(idx)
    /\ due' = [due EXCEPT ![idx] = next_run[idx]]
    /\ asked' = [asked EXCEPT ![idx] = "no"]
    /\ state' = save_state(state, idx, [started |-> now, log_file |-> "-"])
    /\ store' = Written(state')
    /\ set_status([msg |-> "running task", task |-> idx, code |-> 0])
    /\ runs' = <<>>
    /\ outcome' = "running" /\ last_task' = idx
    /\ sched_pc' = "launch"
    /\ UNCHANGED <<now, schedule, command, last_run, next_run, running,
                   alive, stop_pc, idx, next_task, sleep_time, output,
                   rt_output, rt_ret, procs, snapshots_data, clicks, browses,
                   crashed, loadVars, instVars, fnVars, cmdVars, reloaded, loaded>>

\* the code after the "for": pick the sleep time, or raise TypeError when the
\* chosen next_task has no next_run
AfterFor ==
    /\ alive /\ sched_pc = "for" /\ idx \notin Tasks
    /\ IF next_task # 0
       THEN IF next_run[next_task] = None
            THEN /\ sched_pc' = "except"
                 /\ UNCHANGED <<sleep_time, status>>
            ELSE /\ sleep_time' = Max(0, next_run[next_task] - now)
                 /\ set_status([msg |-> "will run", task |-> next_task, code |-> 0])
                 /\ sched_pc' = "sleep"
       ELSE /\ set_status([msg |-> "no scheduled task", task |-> 0, code |-> 0])
            /\ sched_pc' = "sleep"
            /\ UNCHANGED sleep_time
    /\ UNCHANGED <<now, schedule, command, last_run, next_run, state, store,
                   running, alive, stop_pc, idx, next_task, cur, phase, output,
                   rt_output, rt_ret, procs, snapshots_data, runs, outcome, last_task,
                   clicks, browses, crashed, loadVars, instVars, fnVars, logVars, histVars, cmdVars>>

\* "except Exception as e:": log, notify, fall through to the sleep
Catch ==
    /\ alive /\ sched_pc = "except"
    /\ sched_pc' = AfterException
    /\ crashed' = TRUE
    /\ UNCHANGED <<now, schedule, command, last_run, next_run, state, store,
                   running, alive, stop_pc, status, idx, next_task, sleep_time,
                   cur, phase, output, rt_output, rt_ret, procs, snapshots_data,
                   runs, outcome, last_task, clicks, browses, loadVars, instVars, fnVars, logVars, histVars, cmdVars>>

\* seconds slept by "time.sleep(min(sleep_time, 10))"
SleepSeconds == Min(sleep_time, MaxIdle)

Sleep ==
    /\ alive /\ sched_pc = "sleep"
    /\ SleepSeconds >= 0
    /\ sched_pc' = "while"
    /\ UNCHANGED <<now, schedule, command, last_run, next_run, state, store,
                   running, alive, stop_pc, status, idx, next_task, sleep_time,
                   cur, phase, output, rt_output, rt_ret, procs, snapshots_data,
                   runs, outcome, last_task, clicks, browses, crashed, loadVars, instVars, fnVars, logVars, histVars, cmdVars>>

\* ------------------------------------------------------------- run_task
IsStale(line) == line = StaleLine          \* "remove stale locks" in line
CmdOf(ph) == IF ph = "unlock" THEN "unlock" ELSE "task"
CurProc == {p \in procs : p.task = cur}

\* the locals of run_task are gone once it returns or raises
LeaveRunTask ==
    /\ cur' = 0 /\ phase' = "none" /\ output' = <<>>
    /\ rt_output' = <<>> /\ rt_ret' = None

\* Profile.run: stamp last_run, clear next_run; then Popen(**p_args)
ProfileRunStamp(t) ==
    /\ last_run' = [last_run EXCEPT ![t] = now]
    /\ next_run' = [next_run EXCEPT ![t] = None]

\* try_run up to "for line in proc.stdout": Popen succeeded
\* the pid Popen reports: the n-th subprocess of this run_task has pid n
NewPid == Len(runs) + 1

LaunchOk ==
    /\ alive /\ sched_pc = "launch"
    /\ ProfileRunStamp(cur)
    /\ procs' = procs \cup {[pid |-> NewPid, task |-> cur, cmd |-> CmdOf(phase)]}
    /\ state' = save_state(state, cur, [pid |-> NewPid])
    /\ store' = Written(state')
    /\ output' = <<>>
    /\ runs' = Append(runs, [cmd |-> CmdOf(phase), ret |-> None, stale |-> FALSE])
    /\ sched_pc' = "reading"
    /\ UNCHANGED <<now, schedule, command, running, alive, stop_pc,
                   status, idx, next_task, sleep_time, cur, phase, rt_output,
                   rt_ret, snapshots_data, outcome, last_task, clicks, browses, crashed, loadVars, instVars, fnVars, logVars, histVars, cmdVars>>

\* Popen raises OSError: the exception leaves try_run and run_task and is
\* caught by proc_scheduler
LaunchFail ==
    /\ alive /\ sched_pc = "launch"
    /\ ProfileRunStamp(cur)
    /\ runs' = Append(runs, [cmd |-> CmdOf(phase), ret |-> LaunchError, stale |-> FALSE])
    /\ outcome' = "launch_error"
    /\ LeaveRunTask
    /\ sched_pc' = "except"
    /\ UNCHANGED <<now, schedule, command, state, store, running, alive,
                   stop_pc, status, idx, next_task, sleep_time, procs,
                   snapshots_data, last_task, clicks, browses, crashed, loadVars, instVars, fnVars, logVars, histVars, cmdVars>>

\* one pass of "for line in proc.stdout": the line is captured unless filtered
ProcOutput(line) ==
    /\ alive /\ sched_pc = "reading"
    /\ Len(output) < MaxOutput
    /\ output' = IF Filtered(cur, line) THEN output ELSE Append(output, line)
    /\ UNCHANGED <<now, schedule, command, last_run, next_run, state, store,
                   running, alive, stop_pc, status, sched_pc, idx, next_task,
                   sleep_time, cur, phase, rt_output, rt_ret, procs,
                   snapshots_data, runs, outcome, last_task, clicks, browses, crashed, loadVars, instVars, fnVars, logVars, histVars, cmdVars>>

\* What run_task does with the (output, ret) a try_run returned:
\*   "if ret == 1 and 'remove stale locks' in output[-1]"  (first run)
\*   "if try_run(['unlock'])[1] == 0: output, ret = try_run()"
StaleLockRetry_Again(ph, out, ret) ==
    IF ph = "unlock" THEN (IF ret = 0 THEN "rerun" ELSE "finish")
    ELSE IF ret = 1 /\ out = <<>> THEN "IndexError"
    ELSE IF ret = 1 /\ IsStale(out[Len(out)]) THEN "unlock"
    ELSE "finish"

StaleLockRetry_Always(ph, out, ret) ==
    IF ph = "first"
    THEN IF ret = 1 /\ out = <<>> THEN "IndexError"
         ELSE IF ret = 1 /\ IsStale(out[Len(out)]) THEN "unlock"
         ELSE "finish"
    ELSE IF ph = "unlock" THEN "rerun"
    ELSE "finish"

StaleLockRetry(ph, out, ret) ==
    IF ph = "first"
    THEN IF ret = 1 /\ out = <<>> THEN "IndexError"
         ELSE IF ret = 1 /\ IsStale(out[Len(out)]) THEN "unlock"
         ELSE "finish"
    ELSE IF ph = "unlock" THEN (IF ret = 0 THEN "rerun" ELSE "finish")
    ELSE "finish"

\* a classification that takes exit code 3 for a warning whatever the command
status_txt_WarnsAlways(t, ret) ==
    IF ret = 0 THEN [msg |-> "finished successfully", task |-> t, code |-> 0]
    ELSE IF ret = 3
         THEN [msg |-> "finished with some warnings", task |-> t, code |-> 0]
    ELSE [msg |-> "FAILED with exit code", task |-> t, code |-> ret]

\* status_txt of run_task
status_txt(t, ret) ==
    IF ret = 0 THEN [msg |-> "finished successfully", task |-> t, code |-> 0]
    ELSE IF ret = 3 /\ Has(command[t], "backup")
         THEN [msg |-> "finished with some warnings", task |-> t, code |-> 0]
    ELSE [msg |-> "FAILED with exit code", task |-> t, code |-> ret]

\* the record run_task persists when it completes
FinalState(ret) == [last_run |-> now, exit_code |-> ret, pid |-> 0]

\* "task.set_last_run()" to the end of run_task, then the rest of the loop body
Finish(ret) ==
    LET nr == find_next_run(schedule[cur], now) IN
    /\ last_run' = [last_run EXCEPT ![cur] = now]
    /\ IF nr = ValueError
       THEN /\ outcome' = "value_error"
            /\ sched_pc' = "except"
            /\ UNCHANGED <<next_run, state, store, status, next_task, idx>>
       ELSE /\ next_run' = [next_run EXCEPT ![cur] = nr]
            /\ state' = save_state(state, cur, FinalState(ret))
            /\ store' = Written(state')
            /\ set_status(status_txt(cur, ret))
            /\ outcome' = "done"
            /\ next_task' = NextTaskAfter(cur, next_task, next_run')
            /\ idx' = idx + 1
            /\ sched_pc' = "for"
    /\ LeaveRunTask

\* proc.stdout reaches EOF and proc.wait() returns ret; try_run returns
ProcExit(ret) ==
    /\ alive /\ sched_pc = "reading"
    /\ procs' = procs \ CurProc
    /\ runs' = [runs EXCEPT ![Len(runs)] =
                  [@ EXCEPT !.ret = ret,
                            !.stale = output # <<>> /\ IsStale(output[Len(output)])]]
    /\ LET next == StaleLockRetry(phase, output, ret) IN
       CASE next = "IndexError" ->
              /\ outcome' = "index_error"
              /\ LeaveRunTask
              /\ sched_pc' = "except"
              /\ UNCHANGED <<last_run, next_run, state, store, status, next_task, idx>>
         [] next \in {"unlock", "rerun"} ->
              /\ phase' = next
              /\ rt_output' = IF phase = "first" THEN output ELSE rt_output
              /\ rt_ret' = IF phase = "first" THEN ret ELSE rt_ret
              /\ output' = <<>>
              /\ sched_pc' = "launch"
              /\ UNCHANGED <<last_run, next_run, state, store, status, next_task, idx,
                             cur, outcome, last_task>>
         [] OTHER ->
              Finish(IF phase = "unlock" THEN rt_ret ELSE ret)
    /\ UNCHANGED <<now, schedule, command, running, alive, stop_pc,
                   sleep_time, snapshots_data, last_task, clicks, browses,
                   crashed, loadVars, instVars, fnVars, logVars, histVars, cmdVars>>

\* ------------------------------------------------- the clock, other threads
\* time passes while the scheduler thread sleeps or waits for a subprocess
Tick ==
    /\ alive /\ sched_pc \in {"sleep", "reading"}
    /\ now + 60 * TickMinutes <= StartTime + MaxTicks * 60 * TickMinutes
    /\ now' = now + 60 * TickMinutes
    /\ UNCHANGED <<schedule, command, last_run, next_run, state, store, running,
                   alive, stop_pc, status, sched_pc, idx, next_task, sleep_time,
                   cur, phase, output, rt_output, rt_ret, procs, snapshots_data,
                   runs, outcome, last_task, clicks, browses, crashed, loadVars, instVars, fnVars, logVars, histVars, cmdVars>>

\* TrayIconHandler.run.on_run_now_click
RunNow(t) ==
    /\ alive /\ clicks < MaxRunNow
    /\ next_run' = [next_run EXCEPT ![t] = now]
    /\ clicks' = clicks + 1
    /\ asked' = [asked EXCEPT ![t] = IF cur = t THEN "busy" ELSE "new"]
    /\ UNCHANGED <<now, schedule, command, last_run, state, store, running,
                   alive, stop_pc, status, sched_pc, idx, next_task, sleep_time,
                   cur, phase, output, rt_output, rt_ret, procs, snapshots_data,
                   runs, outcome, last_task, browses, crashed, loadVars, instVars,
                   fnVars, logVars, cmdVars, due, reloaded, loaded>>

\* "Reload config" of the tray menu: load_config runs in the tray thread while
\* the scheduler thread goes on.  It reads status.ini again, builds new Profile
\* objects and a new self.tasks from them, and sets each new task's last_run and
\* next_run from the stored record; a run_task in progress, and the "for" of
\* the current pass, keep the Profile objects of the list they started with.
ReloadTasks ==
    /\ alive /\ store.parses
    /\ \A t \in Tasks : find_next_run(schedule[t], now) # ValueError
    /\ loaded' = [tasks |-> [t \in Tasks |-> LoadedRun(store.tasks, t)],
                  during |-> cur]        \* history: the task that was running
    /\ reloaded' = TRUE
    /\ state' = ResetRunning(store.tasks)
    /\ UNCHANGED <<now, schedule, command, last_run, next_run, store, running,
                   alive, stop_pc, status, sched_pc, idx, next_task, sleep_time,
                   cur, phase, output, rt_output, rt_ret, procs, snapshots_data,
                   runs, outcome, last_task, clicks, browses, crashed, loadVars,
                   instVars, fnVars, logVars, cmdVars, due, asked>>

\* the requests WebRequestHandler.do_GET tells apart
Requests == {"index", "snapshots", "diff", "dump", "ls_dir", "ls_file", "ls_missing"}
SnapshotId == "4bpfd3c1"

\* whether serving the request calls profile.run(...)
CallsProfileRun(req) ==
    \/ req \in {"snapshots", "diff", "dump"}
    \/ req \in {"ls_dir", "ls_file", "ls_missing"} /\ SnapshotId \notin snapshots_data
    \/ req = "ls_file"

\* WebRequestHandler.do_GET for profile p (WebRequestHandler.profiles is
\* self.profiles, so p is the very Profile object the scheduler polls)
do_GET(p, req) ==
    /\ alive /\ browses < MaxBrowse
    /\ browses' = browses + 1
    /\ IF CallsProfileRun(req)
       THEN ProfileRunStamp(p)
       ELSE UNCHANGED <<last_run, next_run>>
    /\ snapshots_data' =
          IF req \in {"ls_dir", "ls_file", "ls_missing"}
          THEN snapshots_data \cup {SnapshotId}
          ELSE snapshots_data
    /\ UNCHANGED <<now, schedule, command, state, store, running, alive,
                   stop_pc, status, sched_pc, idx, next_task, sleep_time, cur,
                   phase, output, rt_output, rt_ret, procs, runs, outcome, last_task,
                   clicks, crashed, loadVars, instVars, fnVars, logVars, histVars, cmdVars>>

\* ServiceHandler.stop: "self.running = False", webui_server.shutdown() ...
StopRequest ==
    /\ alive /\ stop_pc = "none"
    /\ running' = FALSE /\ stop_pc' = "shutdown"
    /\ UNCHANGED <<now, schedule, command, last_run, next_run, state, store,
                   alive, status, sched_pc, idx, next_task, sleep_time, cur,
                   phase, output, rt_output, rt_ret, procs, snapshots_data,
                   runs, outcome, last_task, clicks, browses, crashed, loadVars, instVars, fnVars, logVars, histVars, cmdVars>>

\* ... "finally: os._exit(rc)": the process and all its threads are gone
StopExit ==
    /\ alive /\ stop_pc = "shutdown"
    /\ alive' = FALSE /\ stop_pc' = "exited"
    /\ UNCHANGED <<now, schedule, command, last_run, next_run, state, store,
                   running, status, sched_pc, idx, next_task, sleep_time, cur,
                   phase, output, rt_output, rt_ret, procs, snapshots_data,
                   runs, outcome, last_task, clicks, browses, crashed, loadVars, instVars, fnVars, logVars, histVars, cmdVars>>

\* the service process is killed (SIGKILL, power loss): every thread is gone,
\* nothing more is written
Crash ==
    /\ alive
    /\ alive' = FALSE
    /\ UNCHANGED <<now, schedule, command, last_run, next_run, state, store,
                   running, stop_pc, status, sched_pc, idx, next_task, sleep_time,
                   cur, phase, output, rt_output, rt_ret, procs, snapshots_data,
                   runs, outcome, last_task, clicks, browses, crashed, loadVars,
                   instVars, fnVars, logVars, histVars, cmdVars>>

\* the service is started again with the same configuration:
\* BaseHandler.__init__ (load_config reading status.ini) and ServiceHandler.run
\* up to the start of the worker threads.  A start at which find_next_run
\* raises ValueError ends in Profile.__init__ before anything is written.
Restart(pid) ==
    /\ ~alive /\ pid \notin rivals
    /\ store.parses
    /\ \A t \in Tasks : find_next_run(schedule[t], now) # ValueError
    /\ state' = ResetRunning(store.tasks)
    /\ last_run' = [t \in Tasks |-> LoadedRun(store.tasks, t).last_run]
    /\ next_run' = [t \in Tasks |-> LoadedRun(store.tasks, t).next_run]
    /\ service_pid' = pid
    /\ store' = WrittenBy(pid, state')
    /\ running' = TRUE /\ alive' = TRUE /\ stop_pc' = "none"
    /\ set_status([msg |-> "service started", task |-> 0, code |-> 0])
    /\ sched_pc' = "while" /\ idx' = 0 /\ next_task' = 0 /\ sleep_time' = 60
    /\ LeaveRunTask
    /\ procs' = {} /\ snapshots_data' = {}
    /\ reloaded' = FALSE /\ loaded' = <<>>
    /\ UNCHANGED <<now, schedule, command, runs, outcome, last_task, clicks,
                   browses, crashed, loadVars, rivals, load_error, fnVars, logVars,
                   cmdVars, due, asked>>

\* the service is started on a status.ini that ConfigParser cannot parse (a
\* line outside any section, a key without a value): "status.read(...)" raises
\* a configparser.Error, which nothing catches; BaseHandler.__init__ and the
\* process end there
RestartUnparsable(pid) ==
    /\ ~alive /\ pid \notin rivals
    /\ ~store.parses /\ load_error = "none"
    /\ load_error' = "configparser.Error"
    /\ UNCHANGED <<supVars, loadVars, service_pid, rivals, fnVars, logVars, histVars, cmdVars>>

\* a second service process is started on the same status.ini while the first
\* one runs: its BaseHandler.__init__ and ServiceHandler.run, which reads no
\* "__prestic__" pid before it writes its own and starts its scheduler
StartSecond(pid) ==
    /\ alive /\ pid # service_pid /\ pid \notin rivals
    /\ rivals' = rivals \cup {pid}
    /\ store' = WrittenBy(pid, ResetRunning(store.tasks))
    /\ UNCHANGED <<now, schedule, command, last_run, next_run, state,
                   running, alive, stop_pc, status, sched_pc, idx, next_task,
                   sleep_time, cur, phase, output, rt_output, rt_ret, procs,
                   snapshots_data, runs, outcome, last_task, clicks, browses,
                   crashed, loadVars, service_pid, load_error, fnVars, logVars, histVars,
                   cmdVars>>

\* ------------------------------------------------------- specifications
SchedulerStep ==
    \/ LoopHead \/ ForContinue \/ ForNotPending \/ RunTaskBegin \/ AfterFor
    \/ Catch \/ Sleep
    \/ LaunchOk
    \/ LaunchFail

SubprocessStep ==
    \/ \E line \in Lines : ProcOutput(line)
    \/ \E ret \in ExitCodes : ProcExit(ret)

Init == SupInit /\ LoadIdle /\ FnIdle

\* the scheduler thread and the subprocesses it runs
Next ==
    \/ SchedulerStep
    \/ SubprocessStep
    \/ Tick

Spec == Init /\ [][Next]_vars

\* the scheduler thread and the tray's "Run Now" menu entry
TrayNext ==
    \/ SchedulerStep
    \/ SubprocessStep
    \/ Tick
    \/ \E t \in Tasks : RunNow(t)

TraySpec == Init /\ [][TrayNext]_vars

\* the scheduler thread and the HTTP worker started by proc_webui
WebNext ==
    \/ SchedulerStep
    \/ SubprocessStep
    \/ Tick
    \/ \E p \in Tasks, req \in Requests : do_GET(p, req)

WebSpec == Init /\ [][WebNext]_vars

\* the scheduler thread and a stop() call from the main or the tray thread
StopNext ==
    \/ SchedulerStep
    \/ SubprocessStep
    \/ Tick
    \/ StopRequest
    \/ StopExit

StopSpec == Init /\ [][StopNext]_vars

\* the service killed at any moment and started again
CrashNext ==
    \/ SchedulerStep
    \/ SubprocessStep
    \/ Tick
    \/ Crash
    \/ \E pid \in ServicePids : Restart(pid)

CrashSpec == Init /\ [][CrashNext]_vars

\* A configuration with a task that has no schedule: it runs when the tray's
\* "Run Now" asks for it, and the service may be killed and started again at
\* any moment.  The clock stands still: nothing becomes due by time.
ManualInit == SupInit /\ \E t \in Tasks : schedule[t] = NoSchedule

ManualStart == ManualInit /\ LoadIdle /\ FnIdle

ManualNext ==
    \/ SchedulerStep
    \/ \E ret \in ExitCodes : ProcExit(ret)
    \/ \E t \in Tasks : RunNow(t)
    \/ Crash
    \/ \E pid \in ServicePids : Restart(pid)

ManualSpec == ManualStart /\ [][ManualNext]_vars

\* The service is down and is started again after a downtime.  status.ini
\* holds, for each task, no last_run, the record of a run that completed some
\* time ago, or a last_run that is not a number; or the file does not parse.
DownNows == {StartTime + 3 * SecondsPerDay, StartTime + 3 * SecondsPerDay - 12 * 3600}
Ages == {2 * 3600, 13 * 3600, 23 * 3600 + 1800, 25 * 3600, 49 * 3600}
FreshSection == [EmptySection EXCEPT !.started = Str(0), !.pid = Str(0)]
CompletedAt(t0) ==
    [started |-> Str(t0), pid |-> Str(0), last_run |-> Str(t0),
     exit_code |-> Str(0), log_file |-> Str("-")]
StoredRecords(t0) ==
    {FreshSection} \cup {CompletedAt(t0 - a) : a \in Ages}
        \cup {[CompletedAt(t0) EXCEPT !.last_run = Str(NotANumber)]}
StoredFiles(t0) ==
    {[parses |-> TRUE, pid |-> Str(4001), tasks |-> recs] :
        recs \in [Tasks -> StoredRecords(t0)]}
    \cup {[parses |-> FALSE, pid |-> Absent, tasks |-> [t \in Tasks |-> EmptySection]]}

DownInit ==
    /\ now \in DownNows
    /\ schedule \in {f \in [Tasks -> {Hourly, Daily, NoSchedule}] :
                         \A t \in Tasks : f[t] \in TaskSchedules[t]}
    /\ command = TaskCommands
    /\ last_run = [t \in Tasks |-> None] /\ next_run = [t \in Tasks |-> None]
    /\ store \in StoredFiles(now)
    /\ state = store.tasks
    /\ service_pid = 4001 /\ rivals = {} /\ load_error = "none"
    /\ running = FALSE /\ alive = FALSE /\ stop_pc = "none"
    /\ status = [msg |-> "", task |-> 0, code |-> 0]
    /\ sched_pc = "not started" /\ idx = 0 /\ next_task = 0 /\ sleep_time = 0
    /\ cur = 0 /\ phase = "none" /\ output = <<>>
    /\ rt_output = <<>> /\ rt_ret = None
    /\ procs = {} /\ snapshots_data = {}
    /\ runs = <<>> /\ outcome = "idle" /\ last_task = 0 /\ crashed = FALSE
    /\ clicks = 0 /\ browses = 0
    /\ log_files = {}
    /\ HistIdle

DownStart == DownInit /\ LoadIdle /\ FnIdle

\* the start of the service and the polling passes that follow
DownNext ==
    \/ \E pid \in ServicePids : Restart(pid)
    \/ \E pid \in ServicePids : RestartUnparsable(pid)
    \/ SchedulerStep

DownSpec == DownStart /\ [][DownNext]_vars

\* The service is started on a status.ini that holds, for each task, no
\* last_run or the record of a run that completed a day or two days ago; the
\* configuration is reloaded from the tray menu while the service runs.
ReloadAges == {23 * 3600 + 1800, 49 * 3600}
ReloadRunInit ==
    /\ DownInit
    /\ now = StartTime + 3 * SecondsPerDay
    /\ store.parses
    /\ \A t \in Tasks :
          store.tasks[t] \in {FreshSection} \cup {CompletedAt(now - a) : a \in ReloadAges}

ReloadRunStart == ReloadRunInit /\ LoadIdle /\ FnIdle

ReloadRunNext ==
    \/ \E pid \in ServicePids : Restart(pid)
    \/ SchedulerStep
    \/ \E ret \in ExitCodes : ProcExit(ret)
    \/ ReloadTasks

ReloadRunSpec == ReloadRunStart /\ [][ReloadRunNext]_vars

\* the service and a second service process started on the same store
RivalNext ==
    \/ SchedulerStep
    \/ SubprocessStep
    \/ Tick
    \/ \E pid \in ServicePids : StartSecond(pid)

RivalSpec == Init /\ [][RivalNext]_vars

\* --------------------------------------- load_config: profile inheritance
\* self.profiles in dict order, and a name no section of the file has
ProfileNames == <<"default", "child", "parent">>
Profiles == {ProfileNames[i] : i \in 1..Len(ProfileNames)}
UnknownName == "ghost"
\* the options the model follows: is_runnable reads "command", "repository"
\* and "repository-file", setting "schedule" sets next_run, and "limit-upload"
\* is an option of type "size"
Keys == {"repository", "repository-file", "command", "schedule", "limit-upload"}
SizeKeys == {"limit-upload"}
Undefined == <<>>
\* an option the section sets to nothing ("command ="): defined, and falsy
Empty == <<"">>

\* sequences over S of length at most n
RECURSIVE SeqsUpTo(_, _)
SeqsUpTo(S, n) ==
    IF n = 0 THEN {<<>>}
    ELSE LET shorter == SeqsUpTo(S, n - 1)
         IN shorter \cup {Append(q, x) : q \in shorter, x \in S}

\* the value the section of profile p gives to key, when it sets it
ConfigValue(p, key) == <<key, p>>

\* The configuration files read by load_config: the inherit list of every
\* section and the keys it sets.  "default" exists even when the file has no
\* such section, and then it sets nothing.  Either section may set
\* "repository"; a command and a schedule are set by the parent's section only.
Sections == Profiles \ {"default"}
Settable == (Sections \X {"repository"}) \cup ({"parent"} \X {"command", "schedule"})
Configs ==
    {[inherit |-> i, props |-> pr] :
        i \in {f \in [Profiles -> SeqsUpTo(Profiles \cup {UnknownName}, MaxInherit)] :
                   f["default"] = <<>>},
        pr \in {[p \in Profiles |-> [key \in Keys |->
                    IF <<p, key>> \in S THEN ConfigValue(p, key) ELSE Undefined]] :
                   S \in SUBSET Settable}}

\* Profile.is_defined
is_defined(pr, p, key) == pr[p][key] # Undefined

\* the truth value of an option read through __getitem__: the default of these
\* options (None, []) and an empty value are falsy
Truthy(v) == v # Undefined /\ v # Empty

\* a task list that asks for a command only
is_runnable_CommandOnly(pr, p) == Truthy(pr[p]["command"])

\* Profile.is_runnable
is_runnable(pr, p) ==
    /\ Truthy(pr[p]["command"])
    /\ (Truthy(pr[p]["repository"]) \/ Truthy(pr[p]["repository-file"]))

\* Profile.next_run during the load: __setitem__ assigns it whenever
\* "schedule" is set, and the clock does not move during the load
ProfileNextRun(pr, p) ==
    IF is_defined(pr, p, "schedule") THEN find_next_run(Daily, now) ELSE None

\* the value the section of profile p gives to a size option, written as text
SizeValue(p, key, text) == <<key, p, text>>

\* str.isnumeric of the texts the model follows: "100" is digits only; "2M" is
\* the text of the file, "2048.0" and "0.0" are str() of a float
isnumeric(text) == text = "100"

\* parse_size(size) / 1024: a number with a unit is converted to KB, a text that
\* is neither digits with a unit nor digits only gives 0, and the division
\* makes the result a float
parse_size_KB(text) == IF text = "2M" THEN "2048.0" ELSE "0.0"

\* a __setitem__ that stores the value it is given
setitem_AsGiven(key, value) == value

\* Profile.__setitem__: the value stored for the key.  str(value) of a string
\* and list(value) of a list are the value; a size is converted
setitem(key, value) ==
    IF key \in SizeKeys
    THEN <<value[1], value[2],
           IF isnumeric(value[3]) THEN value[3] ELSE parse_size_KB(value[3])>>
    ELSE value

\* Profile.__init__: "for key in properties: self[key] = properties[key]"
Stored(cfgprops) ==
    [p \in Profiles |-> [key \in Keys |->
        IF cfgprops[p][key] = Undefined THEN Undefined
        ELSE setitem(key, cfgprops[p][key])]]

\* an inherit that lets the parent's value replace the child's own
InheritProps_ParentWins(pr, child, parent) ==
    [pr EXCEPT ![child] =
        [key \in Keys |->
            IF is_defined(pr, parent, key) THEN pr[parent][key] ELSE pr[child][key]]]

\* Profile.inherit: copy what the parent defines and the child does not
InheritProps(pr, child, parent) ==
    [pr EXCEPT ![child] =
        [key \in Keys |->
            IF ~is_defined(pr, child, key) /\ is_defined(pr, parent, key)
            THEN setitem(key, pr[parent][key])      \* self[key] = deepcopy(value)
            ELSE pr[child][key]]]

\* self.profiles
Registry == [props |-> props, inherit |-> inherit, parents |-> parents]

\* load_config up to "self.profiles = {...}" for the configuration cfg
ReadConfig(cfg) ==
    /\ config' = cfg
    /\ inherit' = cfg.inherit /\ props' = cfg.props
    /\ parents' = [p \in Profiles |-> <<>>]
    /\ lc_pc' = "while" /\ lc_i' = 1 /\ inherits' = TRUE

\* load_config called by BaseHandler.__init__, after "self.profiles = {...}"
LoadInit ==
    /\ config \in Configs
    /\ inherit = config.inherit /\ props = config.props
    /\ parents = [p \in Profiles |-> <<>>]
    /\ lc_pc = "while" /\ lc_i = 1 /\ inherits = TRUE
    /\ lc_tasks = <<>> /\ prev = <<>> /\ reloads = 0

\* "while inherits: inherits = False"
LcWhile ==
    /\ lc_pc = "while"
    /\ IF inherits
       THEN /\ inherits' = FALSE /\ lc_i' = 1 /\ lc_pc' = "for"
       ELSE /\ lc_pc' = "resolved" /\ UNCHANGED <<inherits, lc_i>>
    /\ UNCHANGED <<inherit, props, parents, lc_tasks, config, prev, reloads,
                   supVars, instVars, fnVars, logVars, histVars, cmdVars>>

\* a loop that never skips a profile
SkipProfile_Never(inh) == FALSE

\* "if not profile['inherit']: continue"
SkipProfile(inh) == inh = <<>>

\* one iteration of "for name, profile in self.profiles.items()"
LcFor ==
    /\ lc_pc = "for" /\ lc_i <= Len(ProfileNames)
    /\ LET name == ProfileNames[lc_i] IN
       IF SkipProfile(inherit[name])
       THEN /\ lc_i' = lc_i + 1
            /\ UNCHANGED <<inherits, inherit, props, parents, lc_pc>>
       ELSE /\ inherits' = TRUE
            /\ IF inherit[name] = <<>>          \* profile["inherit"][0] raises
               THEN /\ lc_pc' = "IndexError"
                    /\ UNCHANGED <<inherit, props, parents, lc_i>>
               ELSE LET parent_name == inherit[name][1] IN
                    IF parent_name \notin Profiles
                    THEN /\ lc_pc' = "exit: inherits non-existing parent"
                         /\ UNCHANGED <<inherit, props, parents, lc_i>>
                    ELSE IF parent_name = name
                    THEN /\ lc_pc' = "exit: cannot inherit from itself"
                         /\ UNCHANGED <<inherit, props, parents, lc_i>>
                    ELSE IF inherit[parent_name] # <<>>
                    THEN /\ lc_i' = lc_i + 1
                         /\ UNCHANGED <<inherit, props, parents, lc_pc>>
                    ELSE /\ props' = InheritProps(props, name, parent_name)
                         /\ parents' = [parents EXCEPT ![name] =
                                          Append(@, <<parent_name, parents[parent_name]>>)]
                         /\ inherit' = [inherit EXCEPT ![name] = Tail(@)]
                         /\ lc_i' = lc_i + 1
                         /\ UNCHANGED lc_pc
    /\ UNCHANGED <<lc_tasks, config, prev, reloads, supVars, instVars, fnVars, logVars, histVars, cmdVars>>

\* the "for" is exhausted: back to the "while" test
LcForEnd ==
    /\ lc_pc = "for" /\ lc_i > Len(ProfileNames)
    /\ lc_pc' = "while"
    /\ UNCHANGED <<inherit, props, parents, lc_i, inherits, lc_tasks, config,
                   prev, reloads, supVars, instVars, fnVars, logVars, histVars, cmdVars>>

\* "self.tasks = [t for t in self.profiles.values() if t.is_runnable()]"; the
\* state set up for each task is that of SupInit and Restart
LcTasks ==
    /\ lc_pc = "resolved"
    /\ lc_tasks' = SelectSeq(ProfileNames, LAMBDA p : is_runnable(props, p))
    /\ lc_pc' = "loaded"
    /\ UNCHANGED <<inherit, props, parents, lc_i, inherits, config, prev,
                   reloads, supVars, instVars, fnVars, logVars, histVars, cmdVars>>

\* the tray's "Reload config": load_config on the running handler, up to
\* "self.profiles = {...}", with any configuration now in the file
LcReload ==
    /\ lc_pc = "loaded" /\ reloads < MaxReload
    /\ reloads' = reloads + 1
    /\ prev' = [profiles |-> Registry, tasks |-> lc_tasks]
    /\ \E cfg \in Configs : ReadConfig(cfg)
    /\ UNCHANGED <<lc_tasks, supVars, instVars, fnVars, logVars, histVars, cmdVars>>

LoadFatal == lc_pc \in {"exit: inherits non-existing parent",
                        "exit: cannot inherit from itself"}

\* the service is not running while the configuration is loaded
SupIdle ==
    /\ now = StartTime
    /\ schedule = [t \in Tasks |-> NoSchedule] /\ command = TaskCommands
    /\ last_run = [t \in Tasks |-> None] /\ next_run = [t \in Tasks |-> None]
    /\ state = [t \in Tasks |-> EmptySection]
    /\ service_pid = 4001 /\ rivals = {} /\ load_error = "none"
    /\ store = [parses |-> TRUE, pid |-> Absent, tasks |-> state]
    /\ running = FALSE /\ alive = TRUE /\ stop_pc = "none"
    /\ status = [msg |-> "", task |-> 0, code |-> 0]
    /\ sched_pc = "not started" /\ idx = 0 /\ next_task = 0 /\ sleep_time = 0
    /\ cur = 0 /\ phase = "none" /\ output = <<>>
    /\ rt_output = <<>> /\ rt_ret = None
    /\ procs = {} /\ snapshots_data = {}
    /\ runs = <<>> /\ outcome = "idle" /\ last_task = 0 /\ crashed = FALSE
    /\ clicks = 0 /\ browses = 0
    /\ log_files = {}
    /\ HistIdle

LoadNext == LcWhile \/ LcFor \/ LcForEnd \/ LcTasks

\* Configurations for the task list: no bad or cyclic inherit; either section
\* may set "command", "repository" and "repository-file", and the child's
\* section may set each of them to nothing.
RunKeys == {"command", "repository", "repository-file"}
TaskInherits ==
    {[q \in Profiles |-> IF q = "child" THEN c ELSE IF q = "parent" THEN p ELSE <<>>] :
        c \in {<<>>, <<"parent">>, <<"parent", "default">>},
        p \in {<<>>, <<"default">>}}
TaskProps ==
    {[q \in Profiles |-> [key \in Keys |->
          IF q = "child" /\ key \in RunKeys THEN c[key]
          ELSE IF q = "parent" /\ key \in RunKeys /\ key \in P
               THEN ConfigValue(q, key)
          ELSE Undefined]] :
        c \in [RunKeys -> {Undefined, Empty, ConfigValue("child", "x")}],
        P \in SUBSET RunKeys}
TaskConfigs == {[inherit |-> i, props |-> pr] : i \in TaskInherits, pr \in TaskProps}

\* load_config called by BaseHandler.__init__, after "self.profiles = {...}"
TaskLoadInit ==
    /\ config \in TaskConfigs
    /\ inherit = config.inherit /\ props = config.props
    /\ parents = [q \in Profiles |-> <<>>]
    /\ lc_pc = "while" /\ lc_i = 1 /\ inherits = TRUE
    /\ lc_tasks = <<>> /\ prev = <<>> /\ reloads = 0

TasksStart == TaskLoadInit /\ SupIdle /\ FnIdle

TasksSpec == TasksStart /\ [][LoadNext]_vars

\* Configurations for the inheritance itself: no bad or cyclic inherit; the
\* child lists no parent, one, or both in either order, and the parent may
\* inherit "default"; every section, "default" included, may set "repository",
\* and "limit-upload" is set without a unit ("100") or with one ("2M").
InheritInherits ==
    {[q \in Profiles |-> IF q = "child" THEN c ELSE IF q = "parent" THEN p ELSE <<>>] :
        c \in {<<>>, <<"parent">>, <<"default">>, <<"parent", "default">>,
               <<"default", "parent">>},
        p \in {<<>>, <<"default">>}}
SizeTexts == {"100", "2M"}
InheritPropsOf(q, R, L) ==
    [key \in Keys |->
        IF key = "repository" /\ q \in R THEN ConfigValue(q, key)
        ELSE IF key \in SizeKeys /\ L[q] # "" THEN SizeValue(q, key, L[q])
        ELSE Undefined]
InheritConfigs ==
    {[inherit |-> i, props |-> [q \in Profiles |-> InheritPropsOf(q, R, L)]] :
        i \in InheritInherits,
        R \in SUBSET Profiles,
        L \in {f \in [Profiles -> SizeTexts \cup {""}] : f["child"] \in {"", "100"}}}

\* load_config called by BaseHandler.__init__, after "self.profiles = {...}"
InheritInit ==
    /\ config \in InheritConfigs
    /\ inherit = config.inherit /\ props = Stored(config.props)
    /\ parents = [q \in Profiles |-> <<>>]
    /\ lc_pc = "while" /\ lc_i = 1 /\ inherits = TRUE
    /\ lc_tasks = <<>> /\ prev = <<>> /\ reloads = 0

InheritStart == InheritInit /\ SupIdle /\ FnIdle

InheritSpec == InheritStart /\ [][LoadNext]_vars

\* the state in which load_config reaches its inheritance loop
LoadStart == LoadInit /\ SupIdle /\ FnIdle

LoadSpec == LoadStart /\ [][LoadNext]_vars /\ WF_vars(LoadNext)

\* the configuration loaded before "Reload config" is used: child inherits
\* parent, which sets everything
PrevConfig ==
    [inherit |-> [p \in Profiles |-> IF p = "child" THEN <<"parent">> ELSE <<>>],
     props |-> [p \in Profiles |-> [key \in Keys |->
                  IF <<p, key>> \in Settable THEN ConfigValue(p, key) ELSE Undefined]]]

ReloadStart == LoadInit /\ SupIdle /\ FnIdle /\ config = PrevConfig

ReloadNext == LcWhile \/ LcFor \/ LcForEnd \/ LcTasks \/ LcReload

\* a handler that loads its configuration and is then told to reload it
ReloadSpec == ReloadStart /\ [][ReloadNext]_vars

\* ------------------------------------------- Profile.find_next_run alone
\* schedule strings: "daily HH:MM", "monthly daily HH:MM", and weekday tokens
\* with a time, such as "mon wed fri 09:00"
DailyAt(h, m) == Sched(<<Tok("daily"), TokTime(h, m)>>)
MonthlyDailyAt(h, m) == Sched(<<Tok("monthly"), Tok("daily"), TokTime(h, m)>>)
RECURSIVE DayToks(_, _)
DayToks(days, d) ==
    IF d > 6 THEN <<>>
    ELSE (IF d \in days THEN <<TokDay(d)>> ELSE <<>>) \o DayToks(days, d + 1)
WeekdaysAt(days, h, m) == Sched(DayToks(days, 0) \o <<TokTime(h, m)>>)

DailySchedules == {DailyAt(h, m) : h \in {0, 8, 14}, m \in {0, 30}}
WeekdaySchedules ==
    {WeekdaysAt(days, h, 0) : days \in {{0, 2, 4}, {1}, {5, 6}, {6}}, h \in {0, 9}}
StarSchedules == {Sched(<<TokDay(0), TokDay(3), TokStar(30)>>)}    \* "mon thu *:30"
\* "hourly", "*:30", "daily *:00"
HourlySchedules ==
    {Sched(<<Tok("hourly")>>), Sched(<<TokStar(30)>>), Sched(<<Tok("daily"), TokStar(0)>>)}
\* non-empty strings in which no token is recognised: "whenever", "every week", ","
UnrecognisedSchedules ==
    {Sched(<<Tok("whenever")>>), Sched(<<Tok("every"), Tok("week")>>), Sched(<<>>)}
\* "monthly mon 09:00", "monthly thu 09:00", "monthly fri 09:00"
MonthlyWeekdaySchedules ==
    {Sched(<<Tok("monthly"), TokDay(d), TokTime(9, 0)>>) : d \in {0, 3, 4}}
Schedules ==
    DailySchedules \cup WeekdaySchedules \cup StarSchedules
        \cup {MonthlyDailyAt(8, 0), MonthlyDailyAt(14, 30)}
        \cup HourlySchedules \cup UnrecognisedSchedules
        \cup MonthlyWeekdaySchedules

\* the instants find_next_run is called with: datetime.now() or a stored
\* last_run, which carry seconds
FromTimes ==
    {d * SecondsPerDay + h * 3600 + m * 60 + sec :
        d \in 0..MaxFromDay, h \in {0, 8, 10, 14, 23}, m \in {0, 29, 59}, sec \in {0, 30}}

FnInit ==
    /\ fn_pc = "call" /\ fn_schedule \in Schedules /\ fn_from \in FromTimes
    /\ fn_result = None
    /\ gc_pc = "idle" /\ gc_props = <<>> /\ gc_args = <<>>
    /\ gc_env = <<>> /\ gc_argv = <<>>

\* task.find_next_run(from_time)
CallFindNextRun ==
    /\ fn_pc = "call"
    /\ fn_result' = find_next_run(fn_schedule, fn_from)
    /\ fn_pc' = "returned"
    /\ UNCHANGED <<fn_schedule, fn_from, supVars, loadVars, instVars, logVars, histVars, cmdVars>>

SchedStart == FnInit /\ SupIdle /\ LoadIdle

SchedSpec == SchedStart /\ [][CallFindNextRun]_vars

\* --------------------------------------------- Profile.get_command alone
\* values of Profile._properties as __setitem__ leaves them
NoV == [t |-> "unset", s |-> "", b |-> FALSE, l |-> <<>>]
StrV(v) == [t |-> "str", s |-> v, b |-> FALSE, l |-> <<>>]
BoolV(v) == [t |-> "bool", s |-> "", b |-> v, l |-> <<>>]
ListV(v) == [t |-> "list", s |-> "", b |-> FALSE, l |-> v]
\* a "size" option: the number as an f-string prints it
SizeV(v) == [t |-> "size", s |-> v, b |-> FALSE, l |-> <<>>]

\* the remapped options among those the model follows, in _options order:
\* _keymap sends "repository" to "flag.repo", "password" to
\* "env.RESTIC_PASSWORD", "no-cache" to "flag.no-cache", "option" to
\* "flag.option"
Remapped ==
    << [key |-> "repository", kind |-> "flag", name |-> "repo"],
       [key |-> "password", kind |-> "env", name |-> "RESTIC_PASSWORD"],
       [key |-> "no-cache", kind |-> "flag", name |-> "no-cache"],
       [key |-> "option", kind |-> "flag", name |-> "option"] >>

\* str.isalnum() on the strings the model uses
AlnumStrings == {"repo1", "secret", "me"}
isalnum(v) == v \in AlnumStrings

\* the profiles get_command is called on
GcProfiles ==
    [ repository : {NoV, StrV("/tmp/repo"), StrV("repo1")},
      password : {NoV, StrV("secret")},
      no_cache : {NoV, BoolV(TRUE), BoolV(FALSE)},
      option : {NoV, ListV(<<"b2.connections=10">>)},
      password_keyring : {NoV, StrV("me")},
      limit_upload : {NoV, SizeV("100"), SizeV("2048.0"), SizeV("0")},
      limit_download : {NoV, SizeV("50")},
      executable : {NoV, ListV(<<"sudo", "restic">>)},
      command : {NoV, ListV(<<"backup", "/home">>)},
      args : {NoV, ListV(<<"--tag", "x">>)} ]
GcOverrides == {<<>>, <<"snapshots">>, <<"forget", "--prune">>}

\* self[key] for the options the model follows
GcValue(p, key) ==
    CASE key = "repository" -> p.repository
      [] key = "password" -> p.password
      [] key = "no-cache" -> p.no_cache
      [] key = "option" -> p.option

\* __getitem__ on a list option: _defaults when the key is not in _properties
ListOr(v, default) == IF v.t = "unset" THEN default ELSE v.l
\* the truth value of a size option: 0 is falsy
SizeSet(v) == v.t = "size" /\ v.s # "0"

\* "for val in values": the argv words of one value of flag --name
FlagWord(name, val) ==
    IF val.t = "bool" THEN (IF val.b THEN <<"--" \o name>> ELSE <<>>)
    ELSE IF val.t = "str"
         THEN (IF isalnum(val.s) THEN <<"--" \o name \o "=" \o val.s>>
               ELSE <<"--" \o name, val.s>>)
    ELSE <<>>
RECURSIVE FlagWords(_, _, _)
FlagWords(name, values, i) ==
    IF i > Len(values) THEN <<>>
    ELSE FlagWord(name, StrV(values[i])) \o FlagWords(name, values, i + 1)

\* "for key in self._properties": the flags added to args
RECURSIVE GcFlags(_, _)
GcFlags(p, i) ==
    IF i > Len(Remapped) THEN <<>>
    ELSE LET o == Remapped[i]
             v == GcValue(p, o.key)
         IN (IF o.kind = "flag" /\ v.t # "unset"
             THEN (IF v.t = "list" THEN FlagWords(o.name, v.l, 1)
                   ELSE FlagWord(o.name, v))
             ELSE <<>>) \o GcFlags(p, i + 1)

\* env[name] = value
SetEnv(env, name, value) ==
    [x \in DOMAIN env \cup {name} |-> IF x = name THEN value ELSE env[x]]

\* "for key in self._properties": the env.* entries
RECURSIVE GcEnv(_, _, _)
GcEnv(p, i, env) ==
    IF i > Len(Remapped) THEN env
    ELSE LET o == Remapped[i]
             v == GcValue(p, o.key)
         IN GcEnv(p, i + 1,
                  IF o.kind = "env" /\ v.t # "unset" THEN SetEnv(env, o.name, v.s)
                  ELSE env)

\* a get_command that appends the default command after the override too
get_command_Both(p, cmd_args) ==
    [env |-> GcEnv(p, 1, <<>>),
     argv |-> ListOr(p.executable, <<"restic">>) \o GcFlags(p, 1) \o cmd_args
              \o ListOr(p.command, <<>>) \o ListOr(p.args, <<>>)]

\* a get_command that spells the repository flag "-r"
get_command_ShortFlag(p, cmd_args) ==
    [env |-> GcEnv(p, 1, <<>>),
     argv |-> ListOr(p.executable, <<"restic">>)
              \o (IF p.repository.t = "str" THEN <<"-r", p.repository.s>> ELSE <<>>)
              \o (IF cmd_args # <<>> THEN cmd_args
                  ELSE ListOr(p.command, <<>>) \o ListOr(p.args, <<>>))]

\* Profile.get_command(cmd_args): (env, args)
get_command(p, cmd_args) ==
    LET env1 == GcEnv(p, 1, <<>>)
        env2 == IF p.password_keyring.t = "str" /\ p.password_keyring.s # ""
                THEN SetEnv(env1, "RESTIC_PASSWORD_COMMAND",
                            "python -m keyring get prestic " \o p.password_keyring.s)
                ELSE env1
        up == SizeSet(p.limit_upload)
        down == SizeSet(p.limit_download)
        env3 == IF up \/ down
                THEN SetEnv(env2, "RCLONE_BWLIMIT",
                            (IF up THEN p.limit_upload.s ELSE "off") \o ":"
                            \o (IF down THEN p.limit_download.s ELSE "off"))
                ELSE env2
        args1 == ListOr(p.executable, <<"restic">>) \o GcFlags(p, 1)
        args2 == args1 \o (IF up THEN <<"--limit-upload=" \o p.limit_upload.s>> ELSE <<>>)
        args3 == args2 \o (IF down THEN <<"--limit-download=" \o p.limit_download.s>>
                           ELSE <<>>)
    IN [env |-> env3,
        argv |-> IF cmd_args # <<>> THEN args3 \o cmd_args
                 ELSE IF ListOr(p.command, <<>>) # <<>>
                      THEN args3 \o ListOr(p.command, <<>>) \o ListOr(p.args, <<>>)
                 ELSE args3]

GcInit ==
    /\ gc_pc = "call" /\ gc_props \in GcProfiles /\ gc_args \in GcOverrides
    /\ gc_env = <<>> /\ gc_argv = <<>>

\* "env, args = self.get_command(cmd_args)"
CallGetCommand ==
    /\ gc_pc = "call"
    /\ gc_env' = get_command(gc_props, gc_args).env
    /\ gc_argv' = get_command(gc_props, gc_args).argv
    /\ gc_pc' = "returned"
    /\ UNCHANGED <<gc_props, gc_args, supVars, loadVars, instVars, fnVars, logVars, histVars>>

FnOnlyIdle ==
    /\ fn_pc = "idle" /\ fn_schedule = NoSchedule /\ fn_from = 0 /\ fn_result = None

CmdStart == GcInit /\ FnOnlyIdle /\ SupIdle /\ LoadIdle

CmdSpec == CmdStart /\ [][CallGetCommand]_vars

\* the scheduler thread keeps running and every subprocess it waits for
\* eventually exits
LiveSpec ==
    /\ Init /\ [][Next]_vars
    /\ WF_vars(SchedulerStep)
    /\ WF_vars(\E ret \in ExitCodes : ProcExit(ret))

\* ------------------------------------------------------------------ claims
Launched(rs) == {i \in 1..Len(rs) : rs[i].ret # LaunchError}
TaskRuns(rs) == {i \in 1..Len(rs) : rs[i].cmd = "task"}
UnlockRuns(rs) == {i \in 1..Len(rs) : rs[i].cmd = "unlock"}
Largest(S) == CHOOSE i \in S : \A j \in S : j <= i
\* the exit code of the last run of the original command
FinalRet(rs) == rs[Largest(TaskRuns(rs))].ret
\* Succeeded / WarnedExit are not failures; every other exit is
IsFailure(t, ret) == ret \in ExitCodes /\ ret # 0 /\ ~(ret = 3 /\ Has(command[t], "backup"))

\* C1: every exit from Running in run_task (a subprocess was started and
\* run_task is left) persists last_run = now, the exit code and pid = 0, and
\* sets next_run to find_next_run(last_run).
C1_ExitPersists ==
    [][(cur # 0 /\ cur' = 0 /\ Launched(runs) # {})
        => /\ state'[cur].last_run = Str(now)
           /\ state'[cur].exit_code = Str(FinalRet(runs'))
           /\ state'[cur].pid = Str(0)
           /\ last_run'[cur] = now
           /\ next_run'[cur] = find_next_run(schedule[cur], now)]_vars

\* C2: after a failed launch a task that has a schedule has a next_run again.
C2_RescheduledAfterLaunchError ==
    (outcome = "launch_error" /\ schedule[last_task].text)
        => next_run[last_task] # None

\* C3: after a failed launch the task's record holds a sentinel exit_code (a
\* value no subprocess returns) and pid = 0.
C3_LaunchErrorPersisted ==
    outcome = "launch_error"
        => /\ state[last_task].exit_code \notin ({Absent} \cup {Str(c) : c \in ExitCodes})
           /\ state[last_task].pid = Str(0)

\* The order of launches that the stale-lock retry produces, given the
\* condition under which the first run counts as "failed on a stale lock".
RetryOrder(staleFailure) ==
    /\ runs # <<>> => runs[1].cmd = "task"
    /\ staleFailure =>
          \/ Len(runs) >= 2 /\ runs[2].cmd = "unlock"
          \/ Len(runs) = 1 /\ sched_pc = "launch" /\ phase = "unlock"
    /\ (Len(runs) >= 2 /\ runs[2].cmd = "unlock" /\ runs[2].ret = 0) =>
          \/ Len(runs) = 3 /\ runs[3].cmd = "task"
          \/ Len(runs) = 2 /\ sched_pc = "launch" /\ phase = "rerun"
    /\ Len(runs) >= 3 => runs[2].ret = 0

\* an exit code written to a task's record is that of the last run of the
\* original command
PersistsFinalRet ==
    \A t \in Tasks :
        state'[t].exit_code # state[t].exit_code
            => state'[t].exit_code = Str(FinalRet(runs'))

C5_RetryAtMostOnce ==
    /\ Cardinality(UnlockRuns(runs)) <= 1
    /\ Cardinality(TaskRuns(runs)) <= 2
    /\ \A i \in UnlockRuns(runs) :
          (runs[i].ret \in ExitCodes \ {0}) => \A j \in TaskRuns(runs) : j < i

\* the re-run failed again on a stale lock and run_task completed
C5_Witness ==
    /\ outcome = "done" /\ Len(runs) = 3
    /\ runs[3].ret = 1 /\ runs[3].stale

\* an unlock that failed, after which run_task completed
C5_WitnessUnlockFailed ==
    /\ outcome = "done" /\ Len(runs) = 2 /\ runs[2].ret = 1

\* C7: at most one subprocess of run_task is in flight, and a task is started
\* only when every earlier run's final state (pid = 0) has been persisted.
C7_SerializedRuns ==
    /\ Cardinality(procs) <= 1
    /\ (sched_pc = "launch" /\ phase = "first")
          => \A u \in Tasks : state[u].pid = Str(0)

\* the part of C7 that holds: never two subprocesses of run_task at once
OneSubprocessAtATime == Cardinality(procs) <= 1

\* C8: serving an HTTP request leaves every profile's last_run and next_run
\* unchanged.
C8_BrowseKeepsSchedule ==
    [][browses' # browses => UNCHANGED <<last_run, next_run>>]_vars

\* C9: a pass that raised is followed by another pass, and every task that was
\* due when the exception was caught is started.
C9_LoopSurvivesException ==
    /\ [](sched_pc = "except" => <>(sched_pc = "for" /\ idx = 1))
    /\ \A t \in Tasks :
          []((sched_pc = "except" /\ is_pending(t)) => <>(cur = t))

\* a task is running in a pass that follows a pass that raised
C9_Witness ==
    /\ crashed /\ sched_pc = "reading" /\ outcome = "running"

\* C10: once stop() has ended the process, no task subprocess is in flight
\* and no task's record still has a pid.
C10_StopWaitsForTask ==
    ~alive => /\ procs = {}
              /\ \A t \in Tasks : state[t].pid = Str(0)

\* C11: when run_task completes, the status it reports is "finished
\* successfully" for exit code 0, "finished with some warnings" for exit code 3
\* of a command containing "backup", and "FAILED" with the code for every
\* other exit code.
C11_OutcomeClassified ==
    [][(cur # 0 /\ outcome' = "done")
        => LET ret == FinalRet(runs')
               warned == ret = 3 /\ Has(command[cur], "backup")
           IN /\ ret = 0 => status'.msg = "finished successfully"
              /\ warned => status'.msg = "finished with some warnings"
              /\ (ret # 0 /\ ~warned)
                    => /\ status'.msg = "FAILED with exit code"
                       /\ status'.code = ret]_vars

\* a backup task that exited with code 3 was reported as finished with warnings
C11_Witness ==
    /\ outcome = "done" /\ Has(command[last_task], "backup")
    /\ FinalRet(runs) = 3
    /\ status.msg = "finished with some warnings"

\* a task that is not a backup and exited with code 3 was reported as failed
C11_WitnessNotBackup ==
    /\ outcome = "done" /\ ~Has(command[last_task], "backup")
    /\ FinalRet(runs) = 3
    /\ status.msg = "FAILED with exit code"

C13_SingleSupervisor ==
    Cardinality((IF alive THEN {service_pid} ELSE {}) \cup rivals) <= 1

\* C14: a reload that ends in a configuration error leaves the profile
\* registry and the task list as the previous load left them.
C14_FailedReloadKeepsRegistry ==
    (reloads > 0 /\ LoadFatal)
        => /\ Registry = prev.profiles
           /\ lc_tasks = prev.tasks

\* some inherit list of the configuration names a profile that does not exist,
\* or the profile itself
BadReference(cfg) ==
    \E p \in Profiles : \E i \in 1..Len(cfg.inherit[p]) :
        cfg.inherit[p][i] \notin Profiles \/ cfg.inherit[p][i] = p

\* every profile that still inherits waits for a parent that still inherits:
\* the first parents form a cycle, the case of C6
CyclicWait ==
    /\ \E p \in Profiles : inherit[p] # <<>>
    /\ \A p \in Profiles :
          inherit[p] # <<>>
              => /\ inherit[p][1] \in Profiles \ {p}
                 /\ inherit[inherit[p][1]] # <<>>

\* C15: a configuration with a reference to a missing profile or to the
\* profile itself, at any position of an inherit list, makes the load end in a
\* fatal error raised for the profile holding the reference, and the load
\* never completes with such a configuration.
C15_BadReferenceIsFatal ==
    /\ BadReference(config) ~> LoadFatal
    /\ [](LoadFatal =>
            LET name == ProfileNames[lc_i] IN
            inherit[name][1] \notin Profiles \/ inherit[name][1] = name)
    /\ [](lc_pc \in {"resolved", "loaded"} => ~BadReference(config))

\* C15 holds but for the cycles of C6: a bad reference leads to the fatal
\* error unless the loop is caught in a cycle of first parents
C15_FatalUnlessCycle == BadReference(config) ~> (LoadFatal \/ CyclicWait)

\* the part of C15 that holds: the load never completes with a bad reference
C15_NeverDropped ==
    lc_pc \in {"resolved", "loaded"} => ~BadReference(config)

\* C16: a key that a profile's own section sets keeps the section's value
\* throughout inheritance resolution.
C16_ChildWins ==
    \A p \in Profiles : \A key \in Keys :
        config.props[p][key] # Undefined => props[p][key] = config.props[p][key]

\* child inherited from parent, both sections set "repository", and child
\* kept its own
C16_Witness ==
    /\ lc_pc = "resolved"
    /\ config.inherit["child"] = <<"parent">>
    /\ parents["child"] # <<>>
    /\ config.props["parent"]["repository"] # Undefined
    /\ props["child"]["repository"] = ConfigValue("child", "repository")
    /\ props["child"]["command"] = ConfigValue("parent", "command")

\* C17: a step of the resolution loop on a registry whose inherit lists are
\* all empty changes no property, no lineage and no next_run, and raises
\* nothing.
C17_ResolvedIsNoOp ==
    [][((\A p \in Profiles : inherit[p] = <<>>) /\ lc_pc \in {"while", "for"})
        => /\ UNCHANGED <<props, parents, inherit>>
           /\ \A p \in Profiles : ProfileNextRun(props', p) = ProfileNextRun(props, p)
           /\ lc_pc' \in {"while", "for", "resolved"}]_vars

\* the loop ran once more over a registry it had fully resolved
C17_Witness ==
    /\ lc_pc = "resolved"
    /\ \E p \in Profiles : parents[p] # <<>>
    /\ \A p \in Profiles : inherit[p] = <<>>

\* ---- find_next_run on day schedules
\* the tokens of the called schedule
HasTok(k) == \E i \in 1..Len(fn_schedule.parts) : fn_schedule.parts[i].k = k
\* the HH:MM of the called schedule, in seconds after midnight
TimeOfDay ==
    LET i == CHOOSE j \in 1..Len(fn_schedule.parts) : fn_schedule.parts[j].k = "time"
    IN 3600 * fn_schedule.parts[i].h + 60 * fn_schedule.parts[i].m
\* the weekdays the called schedule names (0 is Monday)
NamedDays ==
    {fn_schedule.parts[i].d :
        i \in {j \in 1..Len(fn_schedule.parts) : fn_schedule.parts[j].k = "wday"}}
Returned == fn_pc = "returned"
ContainsDaily == HasTok("daily") /\ HasTok("time")
DailyAlone == fn_schedule \in DailySchedules
WeekdaysOnly == ~HasTok("daily") /\ ~HasTok("monthly") /\ NamedDays # {} /\ HasTok("time")
\* HH:MM of the called schedule on the k-th day after the day of t
AtDay(t, k) == (DayOf(t) + k) * SecondsPerDay + TimeOfDay

\* C18: for every schedule containing "daily HH:MM" and every fromTime, the
\* result is at HH:MM, on the calendar day of fromTime or the following day,
\* and never earlier than fromTime + 1 minute.
C18_DailySameOrNextDay ==
    (Returned /\ ContainsDaily) =>
        /\ fn_result >= 0
        /\ fn_result % SecondsPerDay = TimeOfDay
        /\ DayOf(fn_result) \in {DayOf(fn_from), DayOf(fn_from) + 1}
        /\ fn_result >= fn_from + 60

\* C18, as the code has it: for a schedule that is "daily HH:MM" and nothing
\* else, the result is at HH:MM, on the calendar day of fromTime + 1 minute
\* or the following day, and never earlier than fromTime + 1 minute.
C18_DailyWithinADayOfTheAddedMinute ==
    (Returned /\ DailyAlone) =>
        /\ fn_result >= 0
        /\ fn_result % SecondsPerDay = TimeOfDay
        /\ DayOf(fn_result) \in {DayOf(fn_from + 60), DayOf(fn_from + 60) + 1}
        /\ fn_result >= fn_from + 60

\* "daily 00:00" asked for at 23:59:30 answers with the midnight two calendar
\* days after the day of fromTime
C18_Witness ==
    /\ Returned /\ DailyAlone /\ TimeOfDay = 0
    /\ fn_from % SecondsPerDay = 23 * 3600 + 59 * 60 + 30
    /\ DayOf(fn_result) = DayOf(fn_from) + 2

\* "monthly daily HH:MM" contains "daily HH:MM" and answers weeks later
C18_WitnessMonthly ==
    /\ Returned /\ HasTok("monthly") /\ ContainsDaily
    /\ fn_result >= 0 /\ DayOf(fn_result) > DayOf(fn_from) + 1

\* C19: for "daily HH:MM", the result is HH:MM on the day of fromTime when
\* that instant has not yet passed, and HH:MM on the next day when it has.
C19_TodayUnlessPassed ==
    (Returned /\ DailyAlone) =>
        fn_result = IF AtDay(fn_from, 0) > fn_from THEN AtDay(fn_from, 0)
                    ELSE AtDay(fn_from, 1)

\* C19, as the code has it: the result is the first HH:MM that is at least
\* one minute after fromTime: on the day of fromTime, else on the next day,
\* else (fromTime in the last minute before next day's HH:MM) the day after.
C19_FirstAtLeastAMinuteAhead ==
    (Returned /\ DailyAlone) =>
        fn_result = IF AtDay(fn_from, 0) >= fn_from + 60 THEN AtDay(fn_from, 0)
                    ELSE IF AtDay(fn_from, 1) >= fn_from + 60 THEN AtDay(fn_from, 1)
                    ELSE AtDay(fn_from, 2)

\* "daily 14:30" asked for at 14:29:30: 14:30 has not passed, the result is
\* tomorrow's
C19_Witness ==
    /\ Returned /\ DailyAlone /\ TimeOfDay = 14 * 3600 + 30 * 60
    /\ fn_from % SecondsPerDay = 14 * 3600 + 29 * 60 + 30
    /\ fn_result = AtDay(fn_from, 1)

\* the two scenarios: "daily 14:30" from 2024-01-01 10:00 and "daily 08:00"
\* from 2024-01-01 10:00
C19_WitnessSameDay ==
    /\ Returned /\ fn_schedule = DailyAt(14, 30) /\ fn_from = 10 * 3600
    /\ fn_result = 14 * 3600 + 30 * 60
C19_WitnessNextDay ==
    /\ Returned /\ fn_schedule = DailyAt(8, 0) /\ fn_from = 10 * 3600
    /\ fn_result = SecondsPerDay + 8 * 3600

\* C20: for every schedule made only of weekday tokens and a time, and every
\* fromTime, the weekday of the returned timestamp is one of the named ones.
C20_WeekdayAmongNamed ==
    (Returned /\ WeekdaysOnly /\ fn_result # ValueError) =>
        /\ fn_result >= 0
        /\ (fn_result \div SecondsPerDay) % 7 \in NamedDays

\* "mon wed fri 09:00" asked for on a Tuesday answers with the Wednesday
C20_Witness ==
    /\ Returned /\ NamedDays = {0, 2, 4} /\ ~HasTok("daily")
    /\ DayOf(fn_from) % 7 = 1
    /\ (fn_result \div SecondsPerDay) % 7 = 2 /\ DayOf(fn_result) = DayOf(fn_from) + 1

\* C21: for every fromTime, 23:xx included, a schedule with "*:MM" or "hourly"
\* makes find_next_run return an occurrence in the next hour after fromTime;
\* it never fails to produce a result.
C21_NextHourAlways ==
    (Returned /\ fn_schedule \in HourlySchedules) =>
        /\ fn_result >= 0
        /\ fn_result \div 3600 \in {(fn_from \div 3600) + 1, ((fn_from + 60) \div 3600) + 1}

\* C21: what the same call does outside the last hour of the day
C21_NextHourBeforeEleven ==
    (Returned /\ fn_schedule \in HourlySchedules /\ HourOf(fn_from + 60) < 23) =>
        /\ fn_result >= 0
        /\ fn_result \div 3600 = ((fn_from + 60) \div 3600) + 1

\* a reload was made while task t was running, that run has completed, and
\* the polling loop has not yet read the new self.tasks
ReloadedDuring(t) ==
    /\ reloaded /\ loaded.during = t
    /\ cur = 0 /\ outcome = "done" /\ last_task = t

\* C39: a reload of the configuration made while a scheduled task is running
\* does not make the task run a second time for the same slot: once the run in
\* flight has completed, the task of the reloaded registry has no next_run or
\* one later than the slot that run was started for.
C39_NoSecondRunForTheSlot ==
    \A t \in Tasks :
        ReloadedDuring(t)
            => \/ loaded.tasks[t].next_run = None
               \/ loaded.tasks[t].next_run > due[t]

\* C39: what holds when no reload is made: every start of a task serves a
\* next_run later than the one the task's previous start served
C39_LaterSlotWithoutReload ==
    [][(cur = 0 /\ cur' # 0)
          => (due[cur'] = None \/ next_run[cur'] > due[cur'])]_vars

\* a polling pass ends: the scheduler goes to its sleep
PassEnds == sched_pc # "sleep" /\ sched_pc' = "sleep"

\* C31: the sleep between two passes is at most 10 seconds, and a "Run Now"
\* request made for an idle task is served by the first polling pass that begins
\* after it: no pass ends with the task of such a request not started.
C31_ServedByTheNextPass ==
    [][PassEnds => (SleepSeconds' <= MaxIdle /\ \A t \in Tasks : asked'[t] # "waiting")]_vars

\* C31: what holds: a pass that ends without an exception has started the task
\* of every request made before it began, and the sleep is at most 10 seconds
C31_ServedUnlessPassRaises ==
    /\ [](SleepSeconds <= MaxIdle)
    /\ [][(sched_pc = "for" /\ sched_pc' = "sleep")
            => \A t \in Tasks : asked'[t] # "waiting"]_vars

\* a request for t has not been followed by a start of t: it was made while t
\* was not running, or while a run of t was in progress that has now completed
Unserved(t) ==
    \/ asked[t] \in {"new", "waiting"}
    \/ asked[t] = "busy" /\ cur = 0 /\ outcome = "done" /\ last_task = t

\* C38: no "Run Now" request is lost, a request made while the task is running
\* included: as long as the task has not been started after the request, its
\* next_run stays set and due.
C38_RequestStaysDue ==
    \A t \in Tasks : Unserved(t) => (next_run[t] # None /\ next_run[t] <= now)

\* C38: what holds: a request made while the task is not running stays due
\* until the task is started
C38_IdleRequestStaysDue ==
    \A t \in Tasks :
        asked[t] \in {"new", "waiting"} => (next_run[t] # None /\ next_run[t] <= now)

\* load_config merges parent into child in this step: profile.inherit(parent)
\* and profile["inherit"].pop(0)
Merged(child, parent) ==
    /\ lc_pc = "for" /\ lc_i <= Len(ProfileNames) /\ ProfileNames[lc_i] = child
    /\ inherit[child] # <<>> /\ inherit[child][1] = parent
    /\ inherit'[child] # inherit[child]

\* the definition of key nearest to profile p in the configuration as loaded:
\* p's own, else that of the first listed parent that has one, looked up the
\* same way
RECURSIVE Nearest(_, _, _)
RECURSIVE FirstDefined(_, _, _, _)
Nearest(cfg, p, key) ==
    IF Stored(cfg.props)[p][key] # Undefined THEN Stored(cfg.props)[p][key]
    ELSE FirstDefined(cfg, cfg.inherit[p], key, 1)
FirstDefined(cfg, inh, key, i) ==
    IF i > Len(inh) THEN Undefined
    ELSE IF Nearest(cfg, inh[i], key) # Undefined THEN Nearest(cfg, inh[i], key)
    ELSE FirstDefined(cfg, inh, key, i + 1)

\* the key and the section a value comes from
Origin(v) == IF v = Undefined THEN Undefined ELSE <<v[1], v[2]>>

Resolved == lc_pc \in {"resolved", "loaded"}

\* C34: a parent is merged into a child only when the parent's own inherit list
\* is empty, and when resolution completes each profile holds, for every key,
\* the nearest definition among itself and its ancestors, the earlier-listed
\* parent first.
C34_HoldsNearestDefinition ==
    Resolved => \A p \in Profiles : \A key \in Keys :
                    props[p][key] = Nearest(config, p, key)

\* C34: what holds: a parent is merged only when its inherit list is empty
C34_MergedOnlyWhenParentResolved ==
    [][\A child \in Profiles : \A parent \in Profiles :
          Merged(child, parent) => inherit[parent] = <<>>]_vars

\* C34: what holds: each profile ends with a value for exactly the keys it or
\* an ancestor defines, taken from the nearest section that defines the key
C34_NearestSection ==
    Resolved => \A p \in Profiles : \A key \in Keys :
                    Origin(props[p][key]) = Origin(Nearest(config, p, key))

\* C35: a merge copies into the child every property the parent defines and
\* the child does not, the child's value being equal to the parent's; it takes
\* the first entry off the child's inherit list, leaves the child's own
\* properties and changes no property of the parent.
C35_InheritCopiesParentValues ==
    [][\A child \in Profiles : \A parent \in Profiles :
          Merged(child, parent)
              => /\ \A key \in Keys :
                      props'[child][key] =
                          IF is_defined(props, child, key) THEN props[child][key]
                          ELSE props[parent][key]
                 /\ \A q \in Profiles \ {child} : props'[q] = props[q]
                 /\ inherit' = [inherit EXCEPT ![child] = Tail(@)]]_vars

\* C35: what holds: the same for every option that is not of type "size"
C35_InheritCopiesOtherValues ==
    [][\A child \in Profiles : \A parent \in Profiles :
          Merged(child, parent)
              => /\ \A key \in Keys \ SizeKeys :
                      props'[child][key] =
                          IF is_defined(props, child, key) THEN props[child][key]
                          ELSE props[parent][key]
                 /\ \A key \in SizeKeys :
                      is_defined(props, child, key) => props'[child][key] = props[child][key]
                 /\ \A q \in Profiles \ {child} : props'[q] = props[q]
                 /\ inherit' = [inherit EXCEPT ![child] = Tail(@)]]_vars

\* C32: the polling loop starts a task only when, at the check, the task's
\* next_run is set and next_run <= now; a task whose next_run is unset or in the
\* future is never started.
C32_StartedOnlyWhenDue ==
    [][(cur = 0 /\ cur' # 0)
          => (next_run[cur'] # None /\ next_run[cur'] <= now)]_vars

\* C32: run_task has just been entered for a task that was due
C32_Witness ==
    /\ sched_pc = "launch" /\ phase = "first" /\ cur # 0
    /\ next_run[cur] # None /\ next_run[cur] <= now

\* the record of the running task in status.ini
StoredRecord == store.tasks[cur]

C33_InFlight ==
    sched_pc = "reading"
        => /\ \E p \in CurProc : CurProc = {p} /\ StoredRecord.pid = Str(p.pid)
           /\ StoredRecord.started \notin {Absent, Str(0)}

\* C33: while the subprocess of a task is in flight and its output is read, the
\* task's record in status.ini holds a non-zero 'started' and the pid of that
\* subprocess (the new pid for the unlock run and the re-run), and from the
\* start of run_task to that point last_run and exit_code are not written.
C33_RecordWhileInFlight ==
    /\ []C33_InFlight
    /\ [][cur' # 0 => /\ store'.tasks[cur'].last_run = store.tasks[cur'].last_run
                      /\ store'.tasks[cur'].exit_code = store.tasks[cur'].exit_code]_vars

\* C33: the re-run after "unlock" is in flight, a third subprocess, and the
\* record holds its pid
C33_Witness ==
    /\ sched_pc = "reading" /\ phase = "rerun"
    /\ \E p \in CurProc : p.pid = 3 /\ StoredRecord.pid = Str(3)
    /\ StoredRecord.started = Str(now)

\* C36: when run_task completes and set_last_run gives the task a next_run,
\* that next_run is later than the current time, so the task is not pending,
\* and later than the next_run the completed run was started for: the task is
\* not run again for the same slot.
C36_NextRunAdvances ==
    [][(outcome = "running" /\ outcome' = "done" /\ next_run'[last_task] # None)
          => /\ next_run'[last_task] > now'
             /\ due[last_task] # None => next_run'[last_task] > due[last_task]]_vars

\* C36: a run started for a slot has completed and the task waits for a later one
C36_Witness ==
    /\ outcome = "done" /\ last_task # 0
    /\ due[last_task] # None /\ due[last_task] <= now
    /\ next_run[last_task] # None /\ next_run[last_task] > now

\* C36: a timestamp returned by find_next_run(from_time) is later than from_time
C36_LaterThanFromTime ==
    (Returned /\ fn_result \notin {None, ValueError}) => fn_result > fn_from

\* C37: for every schedule string with at least one recognised token, 'monthly'
\* with a weekday token included, the 32-day scan finds a matching day:
\* find_next_run never returns None.
C37_ScanAlwaysFindsADay ==
    (Returned /\ fn_schedule \notin UnrecognisedSchedules) => fn_result # None

\* C37: what holds of the scan: without 'monthly' in the schedule it finds a day
C37_ScanFindsADayUnlessMonthly ==
    (Returned /\ fn_schedule \notin UnrecognisedSchedules /\ ~HasTok("monthly"))
        => fn_result # None

\* C22: find_next_run returns None whenever the schedule string has no frequency
\* keyword, no weekday token and no time token, so the profile never becomes
\* pending.
C22_UnrecognisedIsManual ==
    (Returned /\ fn_schedule \in UnrecognisedSchedules) => fn_result = None

\* C22: what the call returns for such a string: the first midnight that is
\* not earlier than fromTime + 1 minute
C22_UnrecognisedIsMidnight ==
    (Returned /\ fn_schedule \in UnrecognisedSchedules) =>
        /\ fn_result >= fn_from + 60
        /\ fn_result % SecondsPerDay = 0
        /\ fn_result - SecondsPerDay < fn_from + 60

\* ---- load_config on a store left by an earlier service
\* the step that starts the service
Started == ~alive /\ alive'
\* task t has a schedule and a stored last_run that load_config can read
Restored(t) ==
    /\ schedule[t] # NoSchedule
    /\ store.tasks[t].last_run \notin {Absent, Str(NotANumber)}
StoredLastRun(t) == store.tasks[t].last_run[1]
\* the next run computed from the current time, and the one derived from the
\* stored last_run
FreshNextRun(t) == find_next_run(schedule[t], now)
DerivedNextRun(t) == find_next_run(schedule[t], StoredLastRun(t))

C24_FreshWithinTwelveHours ==
    [][Started =>
        \A t \in Tasks :
            (Restored(t) /\ FreshNextRun(t) < now + 12 * 3600)
                => next_run'[t] = FreshNextRun(t)]_vars

\* C24, as the code has it: the fresh value is taken when it would fire within
\* the next 12 hours and the derived next_run is less than 24 hours in the past.
C24_FreshWhenMissedToday ==
    [][Started =>
        \A t \in Tasks :
            (/\ Restored(t) /\ FreshNextRun(t) < now + 12 * 3600
             /\ DerivedNextRun(t) # ValueError
             /\ DerivedNextRun(t) > now - SecondsPerDay)
                => /\ next_run'[t] = FreshNextRun(t)
                   /\ next_run'[t] > now]_vars

\* a task that missed its run during the downtime starts with the fresh
\* next_run, so the first polling pass does not run it
C24_Witness ==
    /\ alive /\ sched_pc = "while" /\ runs = <<>>
    /\ \E t \in Tasks :
          /\ last_run[t] # None /\ schedule[t] # NoSchedule
          /\ find_next_run(schedule[t], last_run[t]) # ValueError
          /\ find_next_run(schedule[t], last_run[t]) <= now
          /\ next_run[t] = find_next_run(schedule[t], now) /\ next_run[t] > now

\* C25: when status.ini is corrupt (malformed content, or a last_run that is
\* not a number), load_config completes as if there were no prior state: every
\* task has last_run unset and a next_run computed from the current time.
C25_CorruptStoreIsNoState ==
    [][(~alive /\ ~store.parses) =>
            /\ alive'
            /\ \A t \in Tasks : last_run'[t] = None /\ next_run'[t] = FreshNextRun(t)]_vars

\* C25: the half that holds: a last_run that is not a number leaves the task
\* with last_run unset and the next_run computed from the current time
C25_BadNumberIsNoState ==
    [][Started =>
        \A t \in Tasks : store.tasks[t].last_run = Str(NotANumber) =>
            last_run'[t] = None /\ next_run'[t] = FreshNextRun(t)]_vars

\* ---- profiles without a schedule
Manual(t) == schedule[t] = NoSchedule

\* C28: for a profile whose schedule is unset, last_run and next_run remain
\* unset in every reachable state: after a load with a persisted record, after
\* on-demand runs and after any number of polling passes.
C28_ManualNeverStamped ==
    \A t \in Tasks : Manual(t) => last_run[t] = None /\ next_run[t] = None

\* C28, as the code has it: next_run is unset after every load and every
\* completed run and is set by "Run Now" only, to the current time; last_run is
\* set by every run and restored by a load from the persisted record.
C28_ManualNextRunOnlyByRunNow ==
    [][\A t \in Tasks : Manual(t) =>
        /\ next_run'[t] # None =>
              \/ next_run'[t] = next_run[t]
              \/ clicks' = clicks + 1 /\ next_run'[t] = now
        /\ Started =>
              /\ next_run'[t] = None
              /\ store.tasks[t].last_run # Absent => last_run'[t] = StoredLastRun(t)
        /\ (cur = t /\ outcome # "done" /\ outcome' = "done") =>
              next_run'[t] = None /\ last_run'[t] = now
        /\ last_run'[t] # last_run[t] => (Started \/ cur = t)]_vars

\* a profile without a schedule was run on demand, and the service was then
\* started again on the record of that run: last_run is set, next_run is not
C28_Witness ==
    /\ alive
    /\ \E t \in Tasks :
          /\ Manual(t) /\ last_run[t] # None /\ next_run[t] = None
          /\ state[t].started = Str(0) /\ state[t].last_run # Absent
          /\ state[t].exit_code # Absent

\* "Run Now" on a profile without a schedule: next_run is set
C28_WitnessRunNow ==
    \E t \in Tasks : Manual(t) /\ next_run[t] = now /\ clicks > 0

\* ---- get_command
GcReturned == gc_pc = "returned"
\* the profile of the round trip: repository=/tmp/repo, password=secret,
\* command = backup /home, no args
RoundTripProfile ==
    /\ gc_props.repository = StrV("/tmp/repo")
    /\ gc_props.password = StrV("secret")
    /\ gc_props.command = ListV(<<"backup", "/home">>)
    /\ gc_props.args = NoV
EndsWith(seq, tail) ==
    /\ Len(seq) >= Len(tail)
    /\ SubSeq(seq, Len(seq) - Len(tail) + 1, Len(seq)) = tail
Without(seq, n) == SubSeq(seq, 1, Len(seq) - n)
Follows(seq, a, b) == \E i \in 1..(Len(seq) - 1) : seq[i] = a /\ seq[i + 1] = b

\* C26: get_command on a profile with repository=/tmp/repo, password=secret,
\* command 'backup /home' and no override arguments returns an argv that ends
\* with backup, /home and holds '-r' followed by '/tmp/repo', and an
\* environment with RESTIC_PASSWORD=secret.
C26_RoundTripShortFlag ==
    (GcReturned /\ RoundTripProfile /\ gc_args = <<>>) =>
        /\ EndsWith(gc_argv, <<"backup", "/home">>)
        /\ Follows(gc_argv, "-r", "/tmp/repo")
        /\ "RESTIC_PASSWORD" \in DOMAIN gc_env /\ gc_env["RESTIC_PASSWORD"] = "secret"

\* C26, as the code has it: the repository is passed as '--repo' followed by
\* '/tmp/repo'.
C26_RoundTripLongFlag ==
    (GcReturned /\ RoundTripProfile /\ gc_args = <<>>) =>
        /\ EndsWith(gc_argv, <<"backup", "/home">>)
        /\ Follows(gc_argv, "--repo", "/tmp/repo")
        /\ \A i \in 1..Len(gc_argv) : gc_argv[i] # "-r"
        /\ "RESTIC_PASSWORD" \in DOMAIN gc_env /\ gc_env["RESTIC_PASSWORD"] = "secret"

\* the round trip on the profile that sets nothing else
C26_Witness ==
    /\ GcReturned /\ RoundTripProfile /\ gc_args = <<>>
    /\ gc_argv = <<"restic", "--repo", "/tmp/repo", "backup", "/home">>
    /\ DOMAIN gc_env = {"RESTIC_PASSWORD"}

\* the argv of the same profile called with no override arguments
NoOverride == get_command(gc_props, <<>>)
DefaultCommand == ListOr(gc_props.command, <<>>)
DefaultArgs == ListOr(gc_props.args, <<>>)

\* C27: non-empty override arguments replace the profile's command and args;
\* with empty override arguments the argv ends with the command followed by the
\* args; the executable, flags and environment are the same in both cases.
C27_OverrideReplacesDefault ==
    GcReturned =>
        LET tail == DefaultCommand \o DefaultArgs IN
        /\ EndsWith(NoOverride.argv, tail)
        /\ gc_env = NoOverride.env
        /\ gc_args # <<>> =>
              /\ EndsWith(gc_argv, gc_args)
              /\ Without(gc_argv, Len(gc_args)) = Without(NoOverride.argv, Len(tail))

\* C27, as the code has it: with empty override arguments the command and the
\* args are appended only when the command is non-empty; a profile with args
\* and no command gets neither.
C27_OverrideReplacesCommandWithArgs ==
    GcReturned =>
        LET tail == IF DefaultCommand # <<>> THEN DefaultCommand \o DefaultArgs ELSE <<>> IN
        /\ EndsWith(NoOverride.argv, tail)
        /\ gc_env = NoOverride.env
        /\ gc_args # <<>> =>
              /\ EndsWith(gc_argv, gc_args)
              /\ Without(gc_argv, Len(gc_args)) = Without(NoOverride.argv, Len(tail))
        /\ gc_args = <<>> => gc_argv = NoOverride.argv

\* an override on a profile that has a command, args and flags
C27_Witness ==
    /\ GcReturned /\ gc_args = <<"forget", "--prune">>
    /\ DefaultCommand # <<>> /\ DefaultArgs # <<>>
    /\ gc_props.repository # NoV /\ gc_props.no_cache = BoolV(TRUE)
    /\ EndsWith(gc_argv, <<"--no-cache", "forget", "--prune">>)

\* args without a command: nothing is appended
C27_WitnessArgsDropped ==
    /\ GcReturned /\ gc_args = <<>>
    /\ DefaultCommand = <<>> /\ DefaultArgs # <<>>
    /\ ~EndsWith(gc_argv, DefaultArgs)

\* C29: after every load the task list holds exactly the profiles that, after
\* inheritance resolution, have a non-empty command and a repository or a
\* repository-file.
C29_TasksAreTheRunnable ==
    lc_pc = "loaded" =>
        /\ {lc_tasks[i] : i \in 1..Len(lc_tasks)} =
              {q \in Profiles :
                  /\ props[q]["command"] \notin {Undefined, Empty}
                  /\ \/ props[q]["repository"] \notin {Undefined, Empty}
                     \/ props[q]["repository-file"] \notin {Undefined, Empty}}
        /\ \A i, j \in 1..Len(lc_tasks) : lc_tasks[i] = lc_tasks[j] => i = j

\* the child is a task through an inherited command and its own
\* repository-file, while the parent, which has the command, is not
C29_Witness ==
    /\ lc_pc = "loaded"
    /\ Has(lc_tasks, "child") /\ ~Has(lc_tasks, "parent")
    /\ config.props["child"]["command"] = Undefined
    /\ props["child"]["repository"] \in {Undefined, Empty}
    /\ props["parent"]["command"] # Undefined

\* an empty "command =" in the child's section keeps the parent's command out
C29_WitnessEmptyCommand ==
    /\ lc_pc = "loaded"
    /\ props["child"]["command"] = Empty /\ parents["child"] # <<>>
    /\ props["parent"]["command"] # Undefined
    /\ props["child"]["repository"] \notin {Undefined, Empty}
    /\ ~Has(lc_tasks, "child")

\* C30: every completed run of a task by run_task produces one log file, named
\* with a timestamp and the task name, that holds the repository locator, the
\* command line, the captured output lines and the final exit code.
C30_RunLeavesLogFile ==
    outcome = "done" =>
        /\ \E f \in log_files : f.task = last_task
        /\ state[last_task].log_file # Str("-")

\* C6: a configuration whose inherit lists form a cycle ends in a fatal error.
C6_CycleIsFatal ==
    (\E a, b \in Profiles :
        /\ a # b
        /\ inherit[a] # <<>> /\ inherit[a][1] = b
        /\ inherit[b] # <<>> /\ inherit[b][1] = a)
    ~> LoadFatal

====
